---- MODULE Spec2Model ----
(***************************************************************************)
(* Model of hetnet_ml/graph_tools.py: the degree-preserving edge           *)
(* permutation permute_edges and its whole-graph driver permute_graph.     *)
(*                                                                         *)
(* An edge table is a sequence of rows <<start_id, end_id, type>>.  A type *)
(* name is a sequence of characters, so that the test '>' in etype can be  *)
(* computed.  Indices i_0, i_1 and the loop counter i are 0-based as in    *)
(* the source; sequences are 1-based, so edge_list[i_0] is written         *)
(* edge_list[r][i_0 + 1].                                                  *)
(*                                                                         *)
(* The module-level generator of Python's random module is ONE variable,   *)
(* rng, shared by every call.  Its state is <<seed, used>>: the seed last  *)
(* given to random.seed and the number of words taken from it since.  The  *)
(* atomic step of the generator is getrandbits(k), which takes one word    *)
(* and returns its k leading bits; the word may be anything, but always    *)
(* the same word from the same state: tape remembers the bits read from a  *)
(* state that a later seeding can reach again.  randrange(n) is a loop of  *)
(* such steps, taking words until one is below n, and the steps of other   *)
(* threads may fall between two of its turns.                              *)
(***************************************************************************)
EXTENDS Integers, Sequences, FiniteSets, TLC

VARIABLES
    todo,        \* per thread: the calls of permute_edges still to be made
    results,     \* per thread: what each finished call returned or raised
    pc,          \* per thread: position inside permute_edges
    args,        \* per thread: arguments of the call in progress
    edge_list,   \* per thread: local edge_list
    edge_set,    \* per thread: local edge_set
    counts,      \* per thread: count_self_loop, count_duplicate, ...
    stats,       \* per thread: local stats (list of records)
    i,           \* per thread: loop counter of "for i in range(n_perm)"
    i_0,         \* per thread: first index drawn
    i_1,         \* per thread: second index drawn
    accepted,    \* per thread: history of the accepted swaps of the call
    overlapped,  \* per thread: another thread stepped during the call
    rng,         \* state of the module-level random generator
    tape,        \* leading bits the generator has yielded, by state
    gpc,         \* permute_graph: position ("none": permute_graph is not called)
    gargs,       \* permute_graph: its arguments
    edge_types,  \* permute_graph: local edge_types
    gi,          \* permute_graph: index i of "for i, etype in enumerate(...)"
    permuted_edges,  \* permute_graph: local permuted_edges
    edge_stats,  \* permute_graph: local edge_stats
    gout         \* permute_graph: the returned (permuted_graph, stats)

VARIABLES
    cpc,             \* column names: position ("none": not followed)
    orig_columns,    \* orig_columns of permute_edges / permute_graph
    columns,         \* edges.columns, the column names of the table at hand
    col_name_mapper, \* col_name_mapper: pairs <<new name, original name>>
    out_columns,     \* the column names of the returned table
    xpc,             \* MatrixFormattedGraph: position ("none": none is built)
    xargs,           \* arguments of MatrixFormattedGraph.__init__
    node_df,         \* self.node_df: rows <<:ID, :LABEL>>
    edge_df,         \* self.edge_df: rows <<:START_ID, :END_ID, :TYPE, abbrev>>
    metaedges,       \* self.metaedges
    metapaths,       \* self.metapaths: pairs <<abbreviation, information>>
    adj_matrices,    \* self.adj_matrices: metaedge |-> set of non-zero <<i, j>>
    mi,              \* generate_adjacency_matrices: position in metaedges
    degree_weighted_matrices, \* self.degree_weighted_matrices
    call,            \* the extract_* call: its name and its arguments
    arguments,       \* local arguments of extract_dwpc / extract_dwwc
    running,         \* parallel_process: the indices the workers are at
    result,          \* parallel_process: the result list, by input index
    order,           \* parallel_process: the indices in order of completion
    table,           \* the DataFrame the call returns
    error            \* the exception the call raised ("none": none)

gvars == <<gpc, gargs, edge_types, gi, permuted_edges, edge_stats, gout>>

cvars == <<cpc, orig_columns, columns, col_name_mapper, out_columns>>

bvars == <<xargs, node_df, edge_df, metaedges, metapaths, adj_matrices, mi>>

evars == <<degree_weighted_matrices, call, arguments, running, result, order,
           table, error>>

xvars == <<xpc, bvars, evars>>

\* The variables of permute_edges.
pvars == <<todo, results, pc, args, edge_list, edge_set, counts, stats,
           i, i_0, i_1, accepted, overlapped, rng, tape>>

vars == <<todo, results, pc, args, edge_list, edge_set, counts, stats,
          i, i_0, i_1, accepted, overlapped, rng, tape, gvars, cvars, xvars>>

----------------------------------------------------------------------------
(* Bounds of the model. *)

MaxEdges == 3
MaxMult == 1
MaxSeed == 1
MaxDraws == 6
MaxGraphEdges == 4
MaxStatsMult == 10
MaxColumns == 4
MaxTypedEdges == 3
MaxLength == 2
MaxRequested == 2
MaxJobs == 2

Threads == {1, 2}

NodeIds == 1..4

\* Pairs the input tables are built from, listed in table order.
EdgePool ==
    << <<1, 2>>, <<3, 4>>, <<2, 3>>, <<1, 4>>, <<4, 1>>, <<2, 1>>, <<2, 2>>,
       <<3, 3>> >>

TypeCtD == <<"C", "t", "D">>
TypeGrG == <<"G", "r", ">", "G">>

Seeds == 0..MaxSeed

\* excluded_edges=None, and a DataFrame of excluded rows.
NoneGiven == [given |-> FALSE, rows |-> <<>>]
Frame(rows) == [given |-> TRUE, rows |-> rows]

NoArgs == [edges |-> <<>>, directed |-> FALSE, multiplier |-> 0,
           excluded_edges |-> NoneGiven, seed |-> 0]

ZeroCounts == [self_loop |-> 0, duplicate |-> 0, undir_dup |-> 0, excluded |-> 0]

----------------------------------------------------------------------------
(* Helpers on tables and sequences. *)

Range(s) == {s[k] : k \in DOMAIN s}

PairOf(row) == <<row[1], row[2]>>

\* [(e.start_id, e.end_id) for e in edges.itertuples(index=False)]
PairList(edges) == [k \in DOMAIN edges |-> PairOf(edges[k])]

\* len(edges) == len(edges.drop_duplicates(subset=['start_id', 'end_id']))
NoDuplicatesMut(edges) == TRUE
NoDuplicates(edges) ==
    \A j, k \in DOMAIN edges : j # k => PairOf(edges[j]) # PairOf(edges[k])

\* edges['type'].nunique() == 1
OneType(edges) == Cardinality({edges[k][3] : k \in DOMAIN edges}) = 1

\* excluded_edge_set of lines 223-226
ExcludedEdgeSet(a) ==
    IF a.excluded_edges.given THEN Range(a.excluded_edges.rows) ELSE {}

\* n_perm = int(edge_number * multiplier)
NPerm(a) == Len(a.edges) * a.multiplier

OrigEdgeSet(a) == Range(PairList(a.edges))

\* step = max(1, n_perm // 10)
StepMut(n) == 1
Step(n) == IF n \div 10 > 1 THEN n \div 10 ELSE 1

\* print_at = list(range(step, n_perm, step)) + [n_perm - 1]
PrintAt(n) ==
    LET step == Step(n)
        cnt == IF n > step THEN (n - 1) \div step ELSE 0
    IN  [k \in 1..cnt |-> step * k] \o << n - 1 >>

\* print_at.index(x): the first position, 0-based
IndexOf(s, x) == (CHOOSE k \in DOMAIN s : s[k] = x /\ \A j \in 1..(k - 1) : s[j] # x) - 1

----------------------------------------------------------------------------
(* The random generator. *)

\* n.bit_length()
RECURSIVE BitLength(_)
BitLength(n) == IF n = 0 THEN 0 ELSE 1 + BitLength(n \div 2)

Unseeded == << -1, 0 >>

\* random.seed(seed)
SeedRng(seed) == << seed, 0 >>

\* Reading v as the k leading bits of the word of the current generator
\* state agrees with the leading bits the tape holds of that word.
Agrees(k, v) ==
    \A e \in tape :
        e[1] = rng =>
            IF e[2] >= k THEN e[3] \div (2 ^ (e[2] - k)) = v
            ELSE v \div (2 ^ (k - e[2])) = e[3]

\* Values getrandbits(k) can return from the current generator state.
getrandbitsMut(k) == 0..(2 ^ k - 1)
getrandbits(k) == {v \in 0..(2 ^ k - 1) : Agrees(k, v)}

\* A later random.seed can bring the generator back to a state it has been in.
MayReseed ==
    \/ \E q \in Threads : todo[q] # <<>>
    \/ gpc = "wait" /\ gi + 1 < Len(edge_types)

\* One turn of the loop of randrange: getrandbits(k) returns v and the
\* generator moves on.  MaxDraws bounds the words that are still open; a
\* word the tape holds bits of is always taken.
Drawn(k, v) ==
    /\ (\E e \in tape : e[1] = rng) \/ rng[2] < MaxDraws
    /\ v \in getrandbits(k)
    /\ rng' = << rng[1], rng[2] + 1 >>
    /\ tape' = IF MayReseed THEN tape \cup {<< rng, k, v >>} ELSE tape

----------------------------------------------------------------------------
(* One swap attempt: lines 250-308. *)

\* swapped_edges = [(edge_0[0], edge_1[1]), (edge_1[0], edge_0[1])]
SwappedEdgesMut(e0, e1) == << <<e0[1], e1[2]>>, <<e0[2], e1[1]>> >>
SwappedEdges(e0, e1) == << <<e0[1], e1[2]>>, <<e1[1], e0[2]>> >>

\* The four checks of lines 259-274 on one candidate edge, in order.
CheckEdgeMut(edge, eset, directed, excl) ==
    IF edge[1] = edge[2] THEN "self_loop"
    ELSE IF edge \in eset THEN "duplicate"
    ELSE IF ~directed /\ <<edge[2], edge[1]>> \in eset THEN "undirected_duplicate"
    ELSE "ok"
CheckEdge(edge, eset, directed, excl) ==
    IF edge[1] = edge[2] THEN "self_loop"
    ELSE IF edge \in eset THEN "duplicate"
    ELSE IF ~directed /\ <<edge[2], edge[1]>> \in eset THEN "undirected_duplicate"
    ELSE IF edge \in excl THEN "excluded"
    ELSE "ok"

\* The for/else of lines 257-277: the first failing check of the first failing
\* candidate, or "valid" when both candidates pass every check.
ValidateMut(swapped, eset, directed, excl) ==
    LET c1 == CheckEdge(swapped[1], eset, directed, excl)
    IN  IF c1 # "ok" THEN c1 ELSE "valid"
Validate(swapped, eset, directed, excl) ==
    LET c1 == CheckEdge(swapped[1], eset, directed, excl)
        c2 == CheckEdge(swapped[2], eset, directed, excl)
    IN  IF c1 # "ok" THEN c1 ELSE IF c2 # "ok" THEN c2 ELSE "valid"

Bump(c, reason) ==
    CASE reason = "self_loop" -> [c EXCEPT !.self_loop = @ + 1]
      [] reason = "duplicate" -> [c EXCEPT !.duplicate = @ + 1]
      [] reason = "undirected_duplicate" -> [c EXCEPT !.undir_dup = @ + 1]
      [] reason = "excluded" -> [c EXCEPT !.excluded = @ + 1]
      [] OTHER -> c

\* Lines 283-284.
NewEdgeList(lst, a, b, swapped) ==
    [lst EXCEPT ![a + 1] = swapped[1], ![b + 1] = swapped[2]]

\* Lines 287-290, when no remove raises.
NewEdgeSetMut(eset, e0, e1, swapped) == eset \cup {swapped[1], swapped[2]}
NewEdgeSet(eset, e0, e1, swapped) ==
    ((eset \ {e0}) \ {e1}) \cup {swapped[1], swapped[2]}

\* The record of lines 293-303; a quotient is kept as <<numerator, denominator>>.
StatRecord(idx, n, c, a, eset) ==
    LET print_at == PrintAt(n)
        index == IndexOf(print_at, idx)
        attempts == IF index = 0 THEN print_at[1] + 1
                    ELSE print_at[index + 1] - print_at[index]
    IN  [cumulative_attempts |-> idx,
         attempts |-> attempts,
         complete |-> <<idx + 1, n>>,
         unchanged |-> <<Cardinality(OrigEdgeSet(a) \cap eset), Len(a.edges)>>,
         self_loop |-> <<c.self_loop, attempts>>,
         duplicate |-> <<c.duplicate, attempts>>,
         undirected_duplicate |-> <<c.undir_dup, attempts>>,
         excluded |-> <<c.excluded, attempts>>]

----------------------------------------------------------------------------
(* permute_edges, one action per step of a call by thread r. *)

Running(q) == pc[q] \in {"loop", "draw0", "pick", "draw1"}

Overlap(r) == [q \in Threads |-> overlapped[q] \/ (q # r /\ Running(q))]

Finished(r, status, edges, st) ==
    results' = [results EXCEPT ![r] = Append(@,
        [args |-> args[r], status |-> status, edges |-> edges, stats |-> st,
         accepted |-> accepted[r], overlapped |-> overlapped[r]])]

\* Lines 206-240: seed the generator, check the preconditions, set up the locals.
Call(r) ==
    /\ pc[r] \in {"idle", "done", "failed"}
    /\ todo[r] # <<>>
    /\ LET a == Head(todo[r])
       IN  /\ todo' = [todo EXCEPT ![r] = Tail(@)]
           /\ args' = [args EXCEPT ![r] = a]
           /\ rng' = SeedRng(a.seed)
           /\ counts' = [counts EXCEPT ![r] = ZeroCounts]
           /\ stats' = [stats EXCEPT ![r] = <<>>]
           /\ i' = [i EXCEPT ![r] = 0]
           /\ i_0' = [i_0 EXCEPT ![r] = 0]
           /\ i_1' = [i_1 EXCEPT ![r] = 0]
           /\ accepted' = [accepted EXCEPT ![r] = <<>>]
           /\ overlapped' = [Overlap(r) EXCEPT ![r] = FALSE]
           /\ UNCHANGED <<tape, gvars, cvars, xvars>>
           /\ \/ /\ ~(NoDuplicates(a.edges) /\ OneType(a.edges))
                 /\ pc' = [pc EXCEPT ![r] = "failed"]
                 /\ results' = [results EXCEPT ![r] = Append(@,
                        [args |-> a, status |-> "AssertionError", edges |-> <<>>,
                         stats |-> <<>>, accepted |-> <<>>, overlapped |-> FALSE])]
                 /\ edge_list' = [edge_list EXCEPT ![r] = <<>>]
                 /\ edge_set' = [edge_set EXCEPT ![r] = {}]
              \/ /\ NoDuplicates(a.edges) /\ OneType(a.edges)
                 /\ pc' = [pc EXCEPT ![r] = "loop"]
                 /\ edge_list' = [edge_list EXCEPT ![r] = PairList(a.edges)]
                 /\ edge_set' = [edge_set EXCEPT ![r] = Range(PairList(a.edges))]
                 /\ UNCHANGED results

\* Lines 242-246: the next iteration starts and randrange takes a word, or
\* randrange of line 245 takes another word after one that was not below
\* edge_number.  With a word below edge_number i_0 is drawn and i_1 = i_0.
Draw0(r) ==
    /\ \/ pc[r] = "loop" /\ i[r] < NPerm(args[r])
       \/ pc[r] = "draw0"
    /\ \E v \in 0..(2 ^ BitLength(Len(args[r].edges)) - 1) :
          LET n == Len(args[r].edges)
          IN  /\ Drawn(BitLength(n), v)
              /\ IF v < n
                 THEN /\ i_0' = [i_0 EXCEPT ![r] = v]
                      /\ i_1' = [i_1 EXCEPT ![r] = v]
                      /\ pc' = [pc EXCEPT ![r] = "pick"]
                 ELSE /\ pc' = [pc EXCEPT ![r] = "draw0"]
                      /\ UNCHANGED <<i_0, i_1>>
    /\ overlapped' = Overlap(r)
    /\ UNCHANGED <<todo, results, args, edge_list, edge_set, counts, stats, i,
                   accepted, gvars, cvars, xvars>>

\* Lines 247-248: one turn of "while i_0 == i_1" starts and randrange takes
\* a word, or randrange of line 248 takes another word after one that was
\* not below edge_number.
Draw1(r) ==
    /\ \/ pc[r] = "pick" /\ i_0[r] = i_1[r]
       \/ pc[r] = "draw1"
    /\ \E v \in 0..(2 ^ BitLength(Len(args[r].edges)) - 1) :
          LET n == Len(args[r].edges)
          IN  /\ Drawn(BitLength(n), v)
              /\ IF v < n
                 THEN /\ i_1' = [i_1 EXCEPT ![r] = v]
                      /\ pc' = [pc EXCEPT ![r] = "pick"]
                 ELSE /\ pc' = [pc EXCEPT ![r] = "draw1"]
                      /\ UNCHANGED i_1
    /\ overlapped' = Overlap(r)
    /\ UNCHANGED <<todo, results, args, edge_list, edge_set, counts, stats,
                   i, i_0, accepted, gvars, cvars, xvars>>

\* Lines 250-308: validate the recombination, swap or count the rejection,
\* emit the statistics of a checkpoint.
Attempt(r) ==
    /\ pc[r] = "pick"
    /\ i_0[r] # i_1[r]
    /\ LET a == args[r]
           edge_0 == edge_list[r][i_0[r] + 1]
           edge_1 == edge_list[r][i_1[r] + 1]
           swapped == SwappedEdges(edge_0, edge_1)
           verdict == Validate(swapped, edge_set[r], a.directed, ExcludedEdgeSet(a))
           valid == verdict = "valid"
           \* set.remove raises KeyError on an element that is not in the set
           raises == valid /\ (edge_0 \notin edge_set[r] \/ edge_1 \notin (edge_set[r] \ {edge_0}))
           lst == IF valid THEN NewEdgeList(edge_list[r], i_0[r], i_1[r], swapped)
                  ELSE edge_list[r]
           eset == IF ~valid THEN edge_set[r]
                   ELSE IF raises THEN edge_set[r] \ {edge_0}
                   ELSE NewEdgeSet(edge_set[r], edge_0, edge_1, swapped)
           cnt == Bump(counts[r], verdict)
           emit == \E k \in DOMAIN PrintAt(NPerm(a)) : PrintAt(NPerm(a))[k] = i[r]
       IN  /\ edge_list' = [edge_list EXCEPT ![r] = lst]
           /\ edge_set' = [edge_set EXCEPT ![r] = eset]
           /\ \/ /\ raises
                 /\ pc' = [pc EXCEPT ![r] = "failed"]
                 /\ Finished(r, "KeyError", <<>>, <<>>)
                 /\ UNCHANGED <<counts, stats, i, accepted>>
              \/ /\ ~raises
                 /\ pc' = [pc EXCEPT ![r] = "loop"]
                 /\ accepted' = [accepted EXCEPT ![r] =
                        IF valid THEN Append(@, <<i[r], i_0[r], i_1[r]>>) ELSE @]
                 /\ stats' = [stats EXCEPT ![r] =
                        IF emit THEN Append(@, StatRecord(i[r], NPerm(a), cnt, a, eset))
                        ELSE @]
                 /\ counts' = [counts EXCEPT ![r] = IF emit THEN ZeroCounts ELSE cnt]
                 /\ i' = [i EXCEPT ![r] = @ + 1]
                 /\ UNCHANGED results
    /\ overlapped' = Overlap(r)
    /\ UNCHANGED <<todo, args, i_0, i_1, rng, tape, gvars, cvars, xvars>>

\* out_edges of lines 311-313: the rows of the returned table.
OutEdges(lst, e_type) == [k \in DOMAIN lst |-> <<lst[k][1], lst[k][2], e_type>>]

\* Lines 310-317: the loop is over, the permuted table and the statistics return.
Return(r) ==
    /\ pc[r] = "loop"
    /\ i[r] >= NPerm(args[r])
    /\ pc' = [pc EXCEPT ![r] = "done"]
    /\ Finished(r, "ok", OutEdges(edge_list[r], args[r].edges[1][3]), stats[r])
    /\ overlapped' = Overlap(r)
    /\ UNCHANGED <<todo, args, edge_list, edge_set, counts, stats, i, i_0, i_1,
                   accepted, rng, tape, gvars, cvars, xvars>>

Next == \E r \in Threads : Call(r) \/ Draw0(r) \/ Draw1(r) \/ Attempt(r) \/ Return(r)

----------------------------------------------------------------------------
(* Inputs. *)

\* Index sequences into EdgePool in non-decreasing order: a repeated index
\* gives a table with a duplicate (start, end) pair.
PoolIndexSeqs(len) ==
    {s \in [1..len -> DOMAIN EdgePool] : \A k \in 1..(len - 1) : s[k] <= s[k + 1]}

\* The table of an index sequence; with mixed, its last row is of another type.
TableOf(s, mixed) ==
    [k \in DOMAIN s |->
        <<EdgePool[s[k]][1], EdgePool[s[k]][2],
          IF mixed /\ k = Len(s) THEN TypeGrG ELSE TypeCtD>>]

Tables ==
    {TableOf(s, m) : s \in UNION {PoolIndexSeqs(len) : len \in 0..MaxEdges},
                     m \in BOOLEAN}

\* No exclusion, the first recombination of the first and last rows, that
\* recombination in the other orientation, or the first row itself.
ExcludedChoices(tbl) ==
    {NoneGiven} \cup
    (IF tbl = <<>> THEN {}
     ELSE {Frame(<< <<tbl[1][1], tbl[Len(tbl)][2]>> >>),
           Frame(<< <<tbl[Len(tbl)][2], tbl[1][1]>> >>),
           Frame(<< <<tbl[1][1], tbl[1][2]>> >>)})

ArgChoices ==
    UNION {[edges : {tbl}, directed : BOOLEAN, multiplier : 1..MaxMult,
            excluded_edges : ExcludedChoices(tbl), seed : Seeds] : tbl \in Tables}

\* The column names are not followed.
NoColumns ==
    /\ cpc = "none"
    /\ orig_columns = <<>>
    /\ columns = <<>>
    /\ col_name_mapper = <<>>
    /\ out_columns = <<>>

\* No MatrixFormattedGraph is under construction.
NoExtractor ==
    /\ xpc = "none"
    /\ xargs = <<>>
    /\ node_df = <<>>
    /\ edge_df = <<>>
    /\ metaedges = <<>>
    /\ metapaths = <<>>
    /\ adj_matrices = <<>>
    /\ mi = 0
    /\ degree_weighted_matrices = <<>>
    /\ call = <<>>
    /\ arguments = <<>>
    /\ running = {}
    /\ result = <<>>
    /\ order = <<>>
    /\ table = <<>>
    /\ error = "none"

InitLocals ==
    /\ results = [r \in Threads |-> <<>>]
    /\ pc = [r \in Threads |-> "idle"]
    /\ args = [r \in Threads |-> NoArgs]
    /\ edge_list = [r \in Threads |-> <<>>]
    /\ edge_set = [r \in Threads |-> {}]
    /\ counts = [r \in Threads |-> ZeroCounts]
    /\ stats = [r \in Threads |-> <<>>]
    /\ i = [r \in Threads |-> 0]
    /\ i_0 = [r \in Threads |-> 0]
    /\ i_1 = [r \in Threads |-> 0]
    /\ accepted = [r \in Threads |-> <<>>]
    /\ overlapped = [r \in Threads |-> FALSE]
    /\ rng = Unseeded

NoGraphArgs == [edges |-> <<>>, multiplier |-> 0, excluded_edges |-> NoneGiven,
                seed |-> 0]

InitGraphLocals ==
    /\ edge_types = <<>>
    /\ gi = 0
    /\ permuted_edges = <<>>
    /\ edge_stats = <<>>
    /\ gout = [status |-> "none", edges |-> <<>>, stats |-> <<>>]

NoGraph ==
    /\ gpc = "none"
    /\ gargs = NoGraphArgs
    /\ InitGraphLocals

\* One call of permute_edges, generator unknown.
Init ==
    /\ InitLocals
    /\ NoColumns
    /\ NoExtractor
    /\ NoGraph
    /\ tape = {}
    /\ \E a \in ArgChoices : todo = [r \in Threads |-> IF r = 1 THEN <<a>> ELSE <<>>]

Spec == Init /\ [][Next]_vars

\* The same call of permute_edges, without exclusions, made twice in a row,
\* generator unknown.
InitRepeat ==
    /\ InitLocals
    /\ NoColumns
    /\ NoExtractor
    /\ NoGraph
    /\ tape = {}
    /\ \E a \in ArgChoices :
          /\ a.seed = 0
          /\ ~a.excluded_edges.given
          /\ todo = [r \in Threads |-> IF r = 1 THEN <<a, a>> ELSE <<>>]

SpecRepeat == InitRepeat /\ [][Next]_vars

\* A generator fixed in advance: from seed, the leading WordBits bits of
\* its k-th word (k = 0, 1, ...) are k modulo 2^(WordBits - 1) + 1, so
\* that the last word of each round is not below a table length of
\* WordBits - 1 bits.
WordBits == BitLength(IF MaxEdges > MaxGraphEdges THEN MaxEdges ELSE MaxGraphEdges)
FixedTape(seed, len) ==
    {<< <<seed, k>>, WordBits, k % (2 ^ (WordBits - 1) + 1) >> : k \in 0..len}

\* The table of the given pool entries, all rows of one type.
PoolTable(idx, type) ==
    [k \in DOMAIN idx |-> <<EdgePool[idx[k]][1], EdgePool[idx[k]][2], type>>]

\* Two threads: the first calls permute_edges twice on a table of one type,
\* the second once on a table of another type sharing no pair with it, and
\* their steps interleave freely, under the fixed generator.
InitConc ==
    /\ InitLocals
    /\ NoColumns
    /\ NoExtractor
    /\ NoGraph
    /\ tape = UNION {FixedTape(s, 24) : s \in Seeds}
    /\ \E d \in BOOLEAN, s \in Seeds :
          LET a == [edges |-> PoolTable(<<1, 3>>, TypeCtD), directed |-> d,
                    multiplier |-> 1, excluded_edges |-> Frame(<< <<1, 3>> >>),
                    seed |-> 0]
              b == [edges |-> PoolTable(<<2, 4>>, TypeGrG), directed |-> TRUE,
                    multiplier |-> 1, excluded_edges |-> NoneGiven, seed |-> s]
          IN  todo = [r \in Threads |-> IF r = 1 THEN <<a, a>> ELSE <<b>>]

SpecConc == InitConc /\ [][Next]_vars

StatsArgChoices ==
    UNION {[edges : {tbl}, directed : BOOLEAN, multiplier : 1..MaxStatsMult,
            excluded_edges : {NoneGiven}, seed : {0}] : tbl \in Tables}

\* One call of permute_edges with a multiplier up to the default of 10,
\* under the fixed generator.
InitStats ==
    /\ InitLocals
    /\ NoColumns
    /\ NoExtractor
    /\ NoGraph
    /\ \E a \in StatsArgChoices :
          /\ todo = [r \in Threads |-> IF r = 1 THEN <<a>> ELSE <<>>]
          /\ tape = FixedTape(a.seed, 4 * NPerm(a))

SpecStats == InitStats /\ [][Next]_vars

----------------------------------------------------------------------------
(* permute_graph: lines 320-359. *)

\* edges['type'].unique(): the types in order of first appearance.
RECURSIVE UniqueTypes(_)
UniqueTypes(edges) ==
    IF edges = <<>> THEN <<>>
    ELSE LET front == UniqueTypes(SubSeq(edges, 1, Len(edges) - 1))
             t == edges[Len(edges)][3]
         IN  IF t \in Range(front) THEN front ELSE Append(front, t)

\* edges.query('type == @etype')
RECURSIVE OfType(_, _)
OfType(edges, etype) ==
    IF edges = <<>> THEN <<>>
    ELSE LET front == OfType(SubSeq(edges, 1, Len(edges) - 1), etype)
             row == edges[Len(edges)]
         IN  IF row[3] = etype THEN Append(front, row) ELSE front

\* directed = '>' in etype or '<' in etype
IsDirected(etype) == \E k \in DOMAIN etype : etype[k] \in {">", "<"}

\* seed=seed + len(to_permute)
TypeSeed(seed, to_permute, idx) == seed + Len(to_permute)

\* pd.concat of a list of tables
RECURSIVE Concat(_)
Concat(tables) ==
    IF tables = <<>> THEN <<>>
    ELSE Concat(SubSeq(tables, 1, Len(tables) - 1)) \o tables[Len(tables)]

\* Lines 333-340.
GraphStart ==
    /\ gpc = "start"
    /\ edge_types' = UniqueTypes(gargs.edges)
    /\ gi' = 0
    /\ permuted_edges' = <<>>
    /\ edge_stats' = <<>>
    /\ gpc' = "loop"
    /\ UNCHANGED <<todo, results, pc, args, edge_list, edge_set, counts, stats,
                   i, i_0, i_1, accepted, overlapped, rng, tape, gargs, gout,
                   cvars, xvars>>

\* Lines 341-346: the next edge type is cut out and handed to permute_edges.
GraphPermute ==
    /\ gpc = "loop"
    /\ gi < Len(edge_types)
    /\ LET etype == edge_types[gi + 1]
           to_permute == OfType(gargs.edges, etype)
       IN  todo' = [todo EXCEPT ![1] =
              << [edges |-> to_permute, directed |-> IsDirected(etype),
                  multiplier |-> gargs.multiplier,
                  excluded_edges |-> gargs.excluded_edges,
                  seed |-> TypeSeed(gargs.seed, to_permute, gi)] >>]
    /\ gpc' = "wait"
    /\ UNCHANGED <<results, pc, args, edge_list, edge_set, counts, stats,
                   i, i_0, i_1, accepted, overlapped, rng, tape, gargs,
                   edge_types, gi, permuted_edges, edge_stats, gout,
                   cvars, xvars>>

\* Lines 348-351: permute_edges has returned (pedge, stats).
GraphCollect ==
    /\ gpc = "wait"
    /\ todo[1] = <<>>
    /\ pc[1] = "done"
    /\ LET res == results[1][Len(results[1])]
       IN  /\ permuted_edges' = Append(permuted_edges, res.edges)
           /\ edge_stats' = Append(edge_stats,
                  [k \in DOMAIN res.stats |->
                      [rec |-> res.stats[k], etype |-> edge_types[gi + 1]]])
    /\ gi' = gi + 1
    /\ gpc' = "loop"
    /\ UNCHANGED <<todo, results, pc, args, edge_list, edge_set, counts, stats,
                   i, i_0, i_1, accepted, overlapped, rng, tape, gargs,
                   edge_types, gout,
                   cvars, xvars>>

\* The assertion of permute_edges propagates out of permute_graph.
GraphRaise ==
    /\ gpc = "wait"
    /\ todo[1] = <<>>
    /\ pc[1] = "failed"
    /\ gpc' = "failed"
    /\ gout' = [status |-> results[1][Len(results[1])].status, edges |-> <<>>,
                stats |-> <<>>]
    /\ UNCHANGED <<todo, results, pc, args, edge_list, edge_set, counts, stats,
                   i, i_0, i_1, accepted, overlapped, rng, tape, gargs,
                   edge_types, gi, permuted_edges, edge_stats,
                   cvars, xvars>>

\* Lines 353-359: the loop is over; pd.concat raises on an empty list.
GraphReturn ==
    /\ gpc = "loop"
    /\ gi >= Len(edge_types)
    /\ IF edge_stats = <<>>
       THEN /\ gpc' = "failed"
            /\ gout' = [status |-> "ValueError", edges |-> <<>>, stats |-> <<>>]
       ELSE /\ gpc' = "done"
            /\ gout' = [status |-> "ok", edges |-> Concat(permuted_edges),
                        stats |-> Concat(edge_stats)]
    /\ UNCHANGED <<todo, results, pc, args, edge_list, edge_set, counts, stats,
                   i, i_0, i_1, accepted, overlapped, rng, tape, gargs,
                   edge_types, gi, permuted_edges, edge_stats,
                   cvars, xvars>>

NextGraph ==
    \/ GraphStart
    \/ GraphPermute
    \/ GraphCollect
    \/ GraphRaise
    \/ GraphReturn
    \/ Call(1)
    \/ Draw0(1)
    \/ Draw1(1)
    \/ Attempt(1)
    \/ Return(1)

\* Graph tables: rows out of the first four pairs of the pool in pool order,
\* each of either type.
GraphTables ==
    UNION {{[k \in 1..len |-> <<EdgePool[s[k]][1], EdgePool[s[k]][2], t[k]>>] :
               s \in {x \in PoolIndexSeqs(len) : \A k \in 1..len : x[k] <= 4},
               t \in [1..len -> {TypeCtD, TypeGrG}]} :
           len \in 0..MaxGraphEdges}

\* One call of permute_graph, generator unknown.
InitGraph ==
    /\ InitLocals
    /\ NoColumns
    /\ NoExtractor
    /\ InitGraphLocals
    /\ tape = {}
    /\ todo = [r \in Threads |-> <<>>]
    /\ gpc = "start"
    /\ \E tbl \in GraphTables, m \in 1..MaxMult, s \in Seeds :
          gargs = [edges |-> tbl, multiplier |-> m, excluded_edges |-> NoneGiven,
                   seed |-> s]

SpecGraph == InitGraph /\ [][NextGraph]_vars

----------------------------------------------------------------------------
(* Column names: remove_colons (lines 165-182) and the renaming of         *)
(* permute_edges (lines 208-210, 311-317) and of permute_graph (lines      *)
(* 333-335, 357-359).  A column name is a sequence of characters.          *)

UpperCase == <<"A", "B", "C", "D", "E", "F", "G", "H", "I", "J", "K", "L", "M",
               "N", "O", "P", "Q", "R", "S", "T", "U", "V", "W", "X", "Y", "Z">>
LowerCase == <<"a", "b", "c", "d", "e", "f", "g", "h", "i", "j", "k", "l", "m",
               "n", "o", "p", "q", "r", "s", "t", "u", "v", "w", "x", "y", "z">>

\* str.lower()
LowerChar(ch) ==
    IF \E k \in DOMAIN UpperCase : UpperCase[k] = ch
    THEN LowerCase[CHOOSE k \in DOMAIN UpperCase : UpperCase[k] = ch]
    ELSE ch
LowerStr(str) == [k \in DOMAIN str |-> LowerChar(str[k])]

\* ':' in str(c)
HasColon(str) == \E k \in DOMAIN str : str[k] = ":"

\* str.split(':')
RECURSIVE Split(_)
Split(str) ==
    IF ~HasColon(str) THEN <<str>>
    ELSE LET k == CHOOSE j \in DOMAIN str :
                      str[j] = ":" /\ \A h \in 1..(j - 1) : str[h] # ":"
         IN  <<SubSeq(str, 1, k - 1)>> \o Split(SubSeq(str, k + 1, Len(str)))

col_id == <<"i", "d">>
col_label == <<"l", "a", "b", "e", "l">>
col_start_id == <<"s", "t", "a", "r", "t", "_", "i", "d">>
col_end_id == <<"e", "n", "d", "_", "i", "d">>
col_type == <<"t", "y", "p", "e">>
reserved_cols == <<col_id, col_label, col_start_id, col_end_id, col_type>>

\* Lines 174-178: the new label of a column whose name holds a colon.
NewLabel(c) ==
    LET l == Split(LowerStr(c))
    IN  IF l[2] \in Range(reserved_cols) THEN l[2] ELSE l[1]

\* Lines 173-182: df.rename(columns=change_dict), on the column names.
remove_colons(cols) ==
    [k \in DOMAIN cols |-> IF HasColon(cols[k]) THEN NewLabel(cols[k]) ELSE cols[k]]

\* {k: v for k, v in zip(edges.columns, orig_columns)}, as the list of its
\* (key, value) pairs in the order they are set.
ColNameMapperMut(new_columns, original) ==
    [k \in DOMAIN new_columns |-> <<original[k], new_columns[k]>>]
ColNameMapper(new_columns, original) ==
    [k \in DOMAIN new_columns |-> <<new_columns[k], original[k]>>]

\* mapper.get(c, c): the pair set last for a key is the one the dict keeps.
Renamed(c, mapper) ==
    IF \E k \in DOMAIN mapper : mapper[k][1] = c
    THEN mapper[CHOOSE k \in DOMAIN mapper :
                    /\ mapper[k][1] = c
                    /\ \A h \in DOMAIN mapper : mapper[h][1] = c => h <= k][2]
    ELSE c

\* df.rename(columns=mapper), on the column names.
Rename(cols, mapper) == [k \in DOMAIN cols |-> Renamed(cols[k], mapper)]

\* Lines 311-313: the columns of the table that permute_edges builds.
BuiltColumns == <<col_start_id, col_end_id, col_type>>

\* The columns that lines 213-219 read are there.
RequiredPresent(cols) == \A k \in DOMAIN BuiltColumns : BuiltColumns[k] \in Range(cols)

\* Two columns of the table have the same name.
NameClash(cols) == \E j, k \in DOMAIN cols : j # k /\ cols[j] = cols[k]

\* permute_edges as a whole, on the column names of its table.
PermutedColumns(cols) ==
    Rename(BuiltColumns, ColNameMapper(remove_colons(cols), cols))

\* Lines 208-210, and the same code at lines 333-335 of permute_graph.
ColumnsMap ==
    /\ cpc \in {"edges", "graph"}
    /\ orig_columns' = columns
    /\ columns' = remove_colons(columns)
    /\ col_name_mapper' = ColNameMapper(remove_colons(columns), columns)
    /\ cpc' = IF cpc = "edges" THEN "mapped" ELSE "gmapped"
    /\ UNCHANGED <<out_columns, todo, results, pc, args, edge_list, edge_set,
                   counts, stats, i, i_0, i_1, accepted, overlapped, rng, tape,
                   gvars, xvars>>

\* Lines 213-219 read the columns start_id, end_id and type: a missing one is
\* a KeyError.  What pandas does with two columns of one name depends on the
\* column and on its version: the call may fail or go on.
ColumnsCheck ==
    /\ cpc = "mapped"
    /\ \/ /\ ~RequiredPresent(columns) \/ NameClash(columns)
          /\ cpc' = "failed"
       \/ /\ RequiredPresent(columns)
          /\ cpc' = "checked"
    /\ UNCHANGED <<orig_columns, columns, col_name_mapper, out_columns, todo,
                   results, pc, args, edge_list, edge_set, counts, stats, i, i_0,
                   i_1, accepted, overlapped, rng, tape, gvars, xvars>>

\* Lines 311-313.
ColumnsOut ==
    /\ cpc = "checked"
    /\ out_columns' = BuiltColumns
    /\ cpc' = "built"
    /\ UNCHANGED <<orig_columns, columns, col_name_mapper, todo, results, pc,
                   args, edge_list, edge_set, counts, stats, i, i_0, i_1,
                   accepted, overlapped, rng, tape, gvars, xvars>>

\* Lines 315-317.
ColumnsRename ==
    /\ cpc = "built"
    /\ out_columns' = Rename(out_columns, col_name_mapper)
    /\ cpc' = "done"
    /\ UNCHANGED <<orig_columns, columns, col_name_mapper, todo, results, pc,
                   args, edge_list, edge_set, counts, stats, i, i_0, i_1,
                   accepted, overlapped, rng, tape, gvars, xvars>>

\* Lines 337-354 of permute_graph: every type is cut out of the renamed
\* table, permuted by permute_edges, and the returned tables are concatenated.
GraphColumnsPermute ==
    /\ cpc = "gmapped"
    /\ \/ /\ ~RequiredPresent(columns) \/ NameClash(columns)
          /\ cpc' = "failed"
          /\ UNCHANGED out_columns
       \/ /\ RequiredPresent(columns)
          /\ out_columns' = PermutedColumns(columns)
          /\ cpc' = "gconcat"
    /\ UNCHANGED <<orig_columns, columns, col_name_mapper, todo, results, pc,
                   args, edge_list, edge_set, counts, stats, i, i_0, i_1,
                   accepted, overlapped, rng, tape, gvars, xvars>>

\* Lines 357-359 of permute_graph.
GraphColumnsRename ==
    /\ cpc = "gconcat"
    /\ out_columns' = Rename(out_columns, col_name_mapper)
    /\ cpc' = "done"
    /\ UNCHANGED <<orig_columns, columns, col_name_mapper, todo, results, pc,
                   args, edge_list, edge_set, counts, stats, i, i_0, i_1,
                   accepted, overlapped, rng, tape, gvars, xvars>>

NextColumns ==
    \/ ColumnsMap
    \/ ColumnsCheck
    \/ ColumnsOut
    \/ ColumnsRename
    \/ GraphColumnsPermute
    \/ GraphColumnsRename

\* Column names an edge table is given with: the import style, the plain
\* style, and attribute columns.
ImportStart == <<":", "S", "T", "A", "R", "T", "_", "I", "D">>
ImportEnd == <<":", "E", "N", "D", "_", "I", "D">>
ImportType == <<":", "T", "Y", "P", "E">>
AttrSource == <<"s", "o", "u", "r", "c", "e">>
AttrP == <<"p", ":", "F", "L", "O", "A", "T">>

ColumnPool ==
    {ImportStart, ImportEnd, ImportType, col_start_id, col_end_id, col_type,
     AttrSource, AttrP}

\* Edge tables of three to MaxColumns columns of distinct names.
ColumnChoices ==
    UNION {{c \in [1..len -> ColumnPool] :
               \A j, k \in 1..len : j # k => c[j] # c[k]} :
           len \in 3..MaxColumns}

\* One call of permute_edges or of permute_graph, followed on the column
\* names of its table.
InitColumns ==
    /\ InitLocals
    /\ NoGraph
    /\ NoExtractor
    /\ tape = {}
    /\ todo = [r \in Threads |-> <<>>]
    /\ cpc \in {"edges", "graph"}
    /\ columns \in ColumnChoices
    /\ orig_columns = <<>>
    /\ col_name_mapper = <<>>
    /\ out_columns = <<>>

SpecColumns == InitColumns /\ [][NextColumns]_vars

----------------------------------------------------------------------------
(* MatrixFormattedGraph (extractor.py): reading the tables, lines 76-109.  *)
(* Node identifiers and labels are strings, edge types and abbreviations   *)
(* sequences of characters; node indices are 0-based as in the source.     *)

\* str.split(sep)
RECURSIVE SplitOn(_, _)
SplitOn(str, sep) ==
    IF ~(\E k \in DOMAIN str : str[k] = sep) THEN <<str>>
    ELSE LET k == CHOOSE j \in DOMAIN str :
                      str[j] = sep /\ \A h \in 1..(j - 1) : str[h] # sep
         IN  <<SubSeq(str, 1, k - 1)>> \o SplitOn(SubSeq(str, k + 1, Len(str)), sep)

\* Series.unique(): the values in order of first appearance.
RECURSIVE Unique(_)
Unique(seq) ==
    IF seq = <<>> THEN <<>>
    ELSE LET front == Unique(SubSeq(seq, 1, Len(seq) - 1))
         IN  IF seq[Len(seq)] \in Range(front) THEN front
             ELSE Append(front, seq[Len(seq)])

\* Lines 83-84: nid_to_index; of two rows with one id the dict keeps the last.
KnownId(nid) == \E k \in DOMAIN node_df : node_df[k][1] = nid
nid_to_index(nid) ==
    (CHOOSE k \in DOMAIN node_df :
        /\ node_df[k][1] = nid
        /\ \A h \in DOMAIN node_df : node_df[h][1] = nid => h <= k) - 1
index_to_nid(idx) == node_df[idx + 1][1]

\* Lines 87-90: metanode_idxs and idx_to_metanode.
KnownKind(kind) == \E k \in DOMAIN node_df : node_df[k][2] = kind
RECURSIVE IdxsOfKind(_, _)
IdxsOfKind(kind, upto) ==
    IF upto = 0 THEN <<>>
    ELSE IF node_df[upto][2] = kind
         THEN Append(IdxsOfKind(kind, upto - 1), upto - 1)
         ELSE IdxsOfKind(kind, upto - 1)
metanode_idxs(kind) == IdxsOfKind(kind, Len(node_df))
idx_to_metanode(idx) == node_df[idx + 1][2]

\* Lines 76-90.
ReadNodeFile ==
    /\ xpc = "new"
    /\ node_df' = xargs.nodes
    /\ xpc' = "nodes"
    /\ UNCHANGED <<xargs, edge_df, metaedges, metapaths, adj_matrices, mi,
                   evars, pvars, gvars, cvars>>

\* A missing cell of the edge table.  Of the cells of a row the start and
\* the end identifier can be missing; every row of the model has a type.
NaN == "NaN"

\* Line 96: DataFrame.dropna(), the rows without a missing cell.
dropna(df) == SelectSeq(df, LAMBDA row : row[1] # NaN /\ row[2] # NaN)

\* all(self.edge_df[':TYPE'].str.contains('_'))
AllNamed(edges) == \A k \in DOMAIN edges : "_" \in Range(edges[k][3])

\* Lines 99-109: the abbreviation column of a row.
AbbrevOf(type, named) ==
    IF named THEN LET parts == SplitOn(type, "_") IN parts[Len(parts)] ELSE type

\* Lines 92-109.
ReadEdgeFile ==
    /\ xpc = "nodes"
    /\ LET edges == dropna(xargs.edges)
           named == AllNamed(edges)
           e_types == Unique([k \in DOMAIN edges |-> edges[k][3]])
       IN  /\ metaedges' = [k \in DOMAIN e_types |-> AbbrevOf(e_types[k], named)]
           /\ edge_df' = [k \in DOMAIN edges |->
                             <<edges[k][1], edges[k][2], edges[k][3],
                               AbbrevOf(edges[k][3], named)>>]
    /\ xpc' = "edges"
    /\ UNCHANGED <<xargs, node_df, metapaths, adj_matrices, mi, evars, pvars, gvars, cvars>>

----------------------------------------------------------------------------
(* The schema and the metapaths: lines 111-229. *)

IsUpperChar(ch) == \E k \in DOMAIN UpperCase : UpperCase[k] = ch
IsLowerChar(ch) == \E k \in DOMAIN LowerCase : LowerCase[k] = ch

\* get_direction, lines 135-142.
get_direction(t) ==
    IF ">" \in Range(t) THEN "forward"
    ELSE IF "<" \in Range(t) THEN "backward" ELSE "both"

\* Lines 164-185: the characters of the abbreviation, one after the other.
RECURSIVE ScanAbbrev(_, _)
ScanAbbrev(abbrev, upto) ==
    IF upto = 0 THEN [start_abbrev |-> <<>>, edge_abbrev |-> <<>>,
                      end_abbrev |-> <<>>, start |-> TRUE]
    ELSE LET acc == ScanAbbrev(abbrev, upto - 1)
             char == abbrev[upto]
             \* if char == char.upper()
             upper == IF IsLowerChar(char) THEN acc
                      ELSE IF acc.start
                           THEN [acc EXCEPT !.start_abbrev = Append(@, char)]
                           ELSE [acc EXCEPT !.end_abbrev = Append(@, char)]
         IN  IF char \in {">", "<"} THEN acc
             \* if char == char.lower()
             ELSE IF IsUpperChar(char) THEN upper
                  ELSE [upper EXCEPT !.edge_abbrev = Append(@, char), !.start = FALSE]

\* regex.findall(pattern, string) for a pattern '[...]+' : the maximal runs of
\* the characters of one class, from left to right.
RECURSIVE Runs(_, _, _)
Runs(str, upper, cur) ==
    LET in(ch) == IF upper THEN IsUpperChar(ch) ELSE IsLowerChar(ch)
    IN  IF str = <<>> THEN (IF cur = <<>> THEN <<>> ELSE <<cur>>)
        ELSE IF in(Head(str)) THEN Runs(Tail(str), upper, Append(cur, Head(str)))
             ELSE (IF cur = <<>> THEN <<>> ELSE <<cur>>) \o Runs(Tail(str), upper, <<>>)

\* parse_edge_abbrev, graph_tools.py lines 29-47, for an abbreviation with two
\* runs of capitals and a run of lower-case letters.
parse_edge_abbrev(edge_abbrev) ==
    <<Runs(edge_abbrev, TRUE, <<>>)[1], Runs(edge_abbrev, FALSE, <<>>)[1],
      Runs(edge_abbrev, TRUE, <<>>)[2]>>

\* The first row of the edge table of a type (line 191).
FirstRowOf(kind) ==
    edge_df[CHOOSE k \in DOMAIN edge_df :
                /\ edge_df[k][3] = kind
                /\ \A h \in 1..(k - 1) : edge_df[h][3] # kind]

\* Line 151: e.split('_')[-1], what follows the last '_' of the type.
edge_abbrevs(kind) == LET parts == SplitOn(kind, "_") IN parts[Len(parts)]

\* Line 161: '_'.join(kind.split('_')[:-1]), what precedes the last '_' of
\* the type; the empty name when the type has no '_'.
edge_name(kind) ==
    IF "_" \notin Range(kind) THEN <<>>
    ELSE SubSeq(kind, 1,
                (CHOOSE k \in DOMAIN kind :
                    kind[k] = "_" /\ \A h \in (k + 1)..Len(kind) : kind[h] # "_") - 1)

\* Lines 144-200: edge_tuples, (start_kind, end_kind, edge_name, direction).
EdgeKinds == Unique([k \in DOMAIN edge_df |-> edge_df[k][3]])
EdgeTuples ==
    [k \in DOMAIN EdgeKinds |->
        LET kind == EdgeKinds[k]
            edge == FirstRowOf(kind)
        IN  [start_kind |-> idx_to_metanode(nid_to_index(edge[1])),
             end_kind |-> idx_to_metanode(nid_to_index(edge[2])),
             edge_name |-> edge_name(kind),
             direction |-> get_direction(kind)]]

\* Lines 192-193 look the first row of every type up in nid_to_index.
SchemaReadable ==
    \A k \in DOMAIN EdgeKinds :
        KnownId(FirstRowOf(EdgeKinds[k])[1]) /\ KnownId(FirstRowOf(EdgeKinds[k])[2])

\* Lines 195-196: the assignments to node_abbrev_dict, in the order made.
RECURSIVE node_abbrev_dict(_)
node_abbrev_dict(upto) ==
    IF upto = 0 THEN <<>>
    ELSE LET parts == ScanAbbrev(edge_abbrevs(EdgeKinds[upto]),
                                 Len(edge_abbrevs(EdgeKinds[upto])))
         IN  node_abbrev_dict(upto - 1) \o
             << <<EdgeTuples[upto].start_kind, parts.start_abbrev>>,
                <<EdgeTuples[upto].end_kind, parts.end_abbrev>> >>

\* Line 188: the assignments to edge_abbrev_dict, in the order made.
edge_abbrev_dict ==
    [k \in DOMAIN EdgeKinds |->
        <<edge_name(EdgeKinds[k]),
          ScanAbbrev(edge_abbrevs(EdgeKinds[k]),
                     Len(edge_abbrevs(EdgeKinds[k]))).edge_abbrev>>]

\* dict[key] after a sequence of assignments: the value assigned last.
ValueOf(assignments, key) ==
    assignments[CHOOSE k \in DOMAIN assignments :
                   /\ assignments[k][1] = key
                   /\ \A h \in DOMAIN assignments :
                         assignments[h][1] = key => h <= k][2]

\* Line 202: {**node_abbrev_dict, **edge_abbrev_dict}, as the assignments that
\* make it: those of node_abbrev_dict, then those of edge_abbrev_dict.
abbrev_dict == node_abbrev_dict(Len(EdgeKinds)) \o edge_abbrev_dict

\* The direction of the inverse of a metaedge.
InverseDirection(direction) ==
    IF direction = "forward" THEN "backward"
    ELSE IF direction = "backward" THEN "forward" ELSE "both"

\* The abbreviation the metagraph gives a metaedge: those of its source, of
\* its name with the mark of its direction, and of its target, all read in
\* the abbreviations it was given.
MetaedgeAbbrev(abbrevs, source, target, name, direction) ==
    ValueOf(abbrevs, source)
    \o (IF direction = "backward" THEN <<"<">> ELSE <<>>)
    \o ValueOf(abbrevs, name)
    \o (IF direction = "forward" THEN <<">">> ELSE <<>>)
    \o ValueOf(abbrevs, target)

\* MetaGraph.from_edge_tuples(edge_tuples, abbrev_dict): one metaedge per
\* tuple and in their order, each with its abbreviation and that of its
\* inverse.
from_edge_tuples(edge_tuples, abbrevs) ==
    [k \in DOMAIN edge_tuples |->
        [start_kind |-> edge_tuples[k].start_kind,
         end_kind |-> edge_tuples[k].end_kind,
         edge_name |-> edge_tuples[k].edge_name,
         direction |-> edge_tuples[k].direction,
         abbrev |-> MetaedgeAbbrev(abbrevs, edge_tuples[k].start_kind,
                                   edge_tuples[k].end_kind, edge_tuples[k].edge_name,
                                   edge_tuples[k].direction),
         inverse |-> MetaedgeAbbrev(abbrevs, edge_tuples[k].end_kind,
                                    edge_tuples[k].start_kind, edge_tuples[k].edge_name,
                                    InverseDirection(edge_tuples[k].direction))]]

\* Line 211: the metaedges of self.metagraph.
MetaEdges == from_edge_tuples(EdgeTuples, abbrev_dict)

\* The steps a metapath is made of: every metaedge, and its inverse; the
\* standard abbreviation of both is that of the metaedge.
StepsOf(edges) ==
    {[from |-> edges[k].start_kind, to |-> edges[k].end_kind,
      abbrev |-> edges[k].abbrev, standard |-> edges[k].abbrev] :
        k \in DOMAIN edges}
    \cup
    {[from |-> edges[k].end_kind, to |-> edges[k].start_kind,
      abbrev |-> edges[k].inverse, standard |-> edges[k].abbrev] :
        k \in DOMAIN edges}
SchemaSteps == StepsOf(MetaEdges)

\* metagraph.extract_metapaths: every chain of 1..max_length steps from
\* start_kind to end_kind.
RECURSIVE ChainsFrom(_, _, _)
ChainsFrom(steps, kind, len) ==
    IF len = 0 THEN {<<>>}
    ELSE {<<>>} \cup
         UNION {{<<st>> \o rest : rest \in ChainsFrom(steps, st.to, len - 1)} :
                   st \in {x \in steps : x.from = kind}}
extract_metapaths(start_kind, end_kind, max_length) ==
    {mp \in ChainsFrom(SchemaSteps, start_kind, max_length) :
        mp # <<>> /\ mp[Len(mp)].to = end_kind}

\* A set of metapaths as a list.
RECURSIVE ListOf(_)
ListOf(set) ==
    IF set = {} THEN <<>>
    ELSE LET x == CHOOSE y \in set : TRUE IN <<x>> \o ListOf(set \ {x})

\* str(mp): the abbreviations of the steps in traversal order.
MetapathKey(mp) == [k \in DOMAIN mp |-> mp[k].abbrev]

\* Lines 224-228.
MetapathInfo(mp) ==
    [length |-> Len(mp), edges |-> mp,
     edge_abbreviations |-> [k \in DOMAIN mp |-> mp[k].abbrev],
     standard_edge_abbreviations |-> [k \in DOMAIN mp |-> mp[k].standard]]

\* Lines 220-229: "if len(mp) == 1: continue".
KeptMut(mp) == TRUE
Kept(mp) == Len(mp) # 1

RECURSIVE MetapathDict(_)
MetapathDict(mps) ==
    IF mps = <<>> THEN <<>>
    ELSE LET rest == MetapathDict(Tail(mps))
             mp == Head(mps)
         IN  IF Kept(mp) THEN << <<MetapathKey(mp), MetapathInfo(mp)>> >> \o rest
             ELSE rest

\* Lines 213-229, with get_metagraph (lines 122-211).
GetMetapaths ==
    /\ xpc = "edges"
    /\ ~xargs.metapaths_file.given
    /\ IF SchemaReadable /\ KnownKind(xargs.start_kind) /\ KnownKind(xargs.end_kind)
       THEN /\ metapaths' = MetapathDict(ListOf(
                   extract_metapaths(xargs.start_kind, xargs.end_kind,
                                     xargs.max_length)))
            /\ xpc' = "adj"
       ELSE /\ xpc' = "failed"
            /\ UNCHANGED metapaths
    /\ UNCHANGED <<xargs, node_df, edge_df, metaedges, adj_matrices, mi,
                   evars, pvars, gvars, cvars>>

\* Lines 111-120: the catalog is stored record by record.
ReadMetapathsFile ==
    /\ xpc = "edges"
    /\ xargs.metapaths_file.given
    /\ metapaths' = [k \in DOMAIN xargs.metapaths_file.mps |->
                        LET mp == xargs.metapaths_file.mps[k]
                        IN  <<mp.abbreviation,
                              [length |-> mp.length, edges |-> mp.edges,
                               edge_abbreviations |-> mp.edge_abbreviations,
                               standard_edge_abbreviations |->
                                   mp.standard_edge_abbreviations]>>]
    /\ xpc' = "adj"
    /\ UNCHANGED <<xargs, node_df, edge_df, metaedges, adj_matrices, mi,
                   evars, pvars, gvars, cvars>>

----------------------------------------------------------------------------
(* The adjacency matrices: lines 231-277.  A matrix is the set of the      *)
(* positions <<i, j>> of its non-zero entries, all of them 1.              *)

\* The rows of the edge table of a metaedge (lines 247-248).
RowsOf(metaedge) == {k \in DOMAIN edge_df : edge_df[k][4] = metaedge}

\* Lines 247-248 look every endpoint up in nid_to_index.
EndpointsKnown(metaedge) ==
    \A k \in RowsOf(metaedge) : KnownId(edge_df[k][1]) /\ KnownId(edge_df[k][2])

\* get_adj_matrix, lines 231-256.
get_adj_matrix(metaedge, directed) ==
    LET forward == {<<nid_to_index(edge_df[k][1]), nid_to_index(edge_df[k][2])>> :
                       k \in RowsOf(metaedge)}
    IN  IF directed THEN forward
        ELSE forward \cup {<<p[2], p[1]>> : p \in forward}

\* matrix.transpose()
Transpose(mat) == {<<p[2], p[1]>> : p \in mat}

\* mt.get_reverse_directed_edge: 'Gr>G' gives 'G<rG'.
get_reverse_directed_edge(metaedge) ==
    LET parts == parse_edge_abbrev(metaedge)
    IN  parts[3] \o <<"<">> \o parts[2] \o parts[1]

\* dict[key] = value
Put(dict, key, value) ==
    [x \in (DOMAIN dict) \cup {key} |-> IF x = key THEN value ELSE dict[x]]

\* The test of line 269 for the directed metaedges.
IsForward(metaedge) == ">" \in Range(metaedge)

\* Lines 267-275: one turn of the loop of generate_adjacency_matrices.
AdjacencyStep ==
    /\ xpc = "adj"
    /\ mi < Len(metaedges)
    /\ LET metaedge == metaedges[mi + 1]
       IN  IF ~EndpointsKnown(metaedge)
           THEN /\ xpc' = "failed"
                /\ UNCHANGED <<adj_matrices, mi>>
           ELSE /\ xpc' = "adj"
                /\ mi' = mi + 1
                /\ adj_matrices' =
                      IF IsForward(metaedge)
                      THEN Put(Put(adj_matrices, metaedge,
                                   get_adj_matrix(metaedge, TRUE)),
                               get_reverse_directed_edge(metaedge),
                               Transpose(get_adj_matrix(metaedge, TRUE)))
                      ELSE Put(adj_matrices, metaedge, get_adj_matrix(metaedge, FALSE))
    /\ UNCHANGED <<xargs, node_df, edge_df, metaedges, metapaths, evars, pvars, gvars, cvars>>

\* Lines 71 and 277: the matrices are returned and stored.
AdjacencyDone ==
    /\ xpc = "adj"
    /\ mi >= Len(metaedges)
    /\ xpc' = "built"
    /\ UNCHANGED <<bvars, evars, pvars, gvars, cvars>>

NextBuild ==
    \/ ReadNodeFile
    \/ ReadEdgeFile
    \/ GetMetapaths
    \/ ReadMetapathsFile
    \/ AdjacencyStep
    \/ AdjacencyDone

----------------------------------------------------------------------------
(* The tables a MatrixFormattedGraph is built from. *)

\* The node types, character by character.
Compound == <<"C", "o", "m", "p", "o", "u", "n", "d">>
Gene == <<"G", "e", "n", "e">>
Disease == <<"D", "i", "s", "e", "a", "s", "e">>

NodeTable == << <<"c1", Compound>>, <<"g1", Gene>>, <<"g2", Gene>>,
                <<"d1", Disease>> >>

TypeCbG == <<"C", "b", "G">>
TypeGuG == <<"G", "<", "u", "G">>
TypeGaD == <<"G", "a", "D">>
TypeNamedCtG == <<"t", "_", "C", "t", "G">>
TypeNamedGrG == <<"r", "_", "G", "r", ">", "G">>
TypeNamedGpD == <<"p", "_", "G", "p", "D">>

\* Typed edges: with a name before the abbreviation (undirected, forward)
\* and without one (backward, undirected), one from a node that the node
\* table does not have, and one whose start identifier is missing.  No two
\* types of the pool get one abbreviation or one (start, end, name,
\* direction) in the schema.
TypedEdgePool ==
    << <<"c1", "g1", TypeNamedCtG>>, <<"c1", "g2", TypeNamedCtG>>,
       <<"g1", "g2", TypeNamedGrG>>, <<"g2", "g1", TypeNamedGrG>>,
       <<"g1", "g2", TypeGuG>>,
       <<"g1", "d1", TypeNamedGpD>>, <<"g2", "d1", TypeNamedGpD>>,
       <<"c1", "g1", TypeCbG>>, <<"g1", "d1", TypeGaD>>,
       <<"zz", "g1", TypeNamedCtG>>, <<NaN, "g2", TypeNamedCtG>> >>

\* Edge tables: up to MaxTypedEdges rows of the pool, in the order of the pool.
RECURSIVE IncreasingSeqs(_, _)
IncreasingSeqs(len, top) ==
    IF len = 0 THEN {<<>>}
    ELSE UNION {{Append(front, k) : k \in
                    (IF front = <<>> THEN 1 ELSE front[Len(front)] + 1)..top} :
                front \in IncreasingSeqs(len - 1, top)}
TypedTables ==
    UNION {{[k \in 1..len |-> TypedEdgePool[idx[k]]] :
               idx \in IncreasingSeqs(len, Len(TypedEdgePool))} :
           len \in 0..MaxTypedEdges}

NoFile == [given |-> FALSE, mps |-> <<>>]

\* The dampening factors w of the model: no dampening, and full dampening.
Dampenings == {0, 1}

\* A constructor call that enumerates the metapaths.
EnumeratingArgs ==
    [nodes : {NodeTable}, edges : TypedTables,
     start_kind : {Compound, Gene}, end_kind : {Gene, Disease},
     max_length : 1..MaxLength, metapaths_file : {NoFile}, w : Dampenings]

StepCtG == [from |-> Compound, to |-> Gene,
            abbrev |-> edge_abbrevs(TypeNamedCtG), standard |-> edge_abbrevs(TypeNamedCtG)]
StepGrG == [from |-> Gene, to |-> Gene, abbrev |-> TypeGrG, standard |-> TypeGrG]
StepGpD == [from |-> Gene, to |-> Disease,
            abbrev |-> edge_abbrevs(TypeNamedGpD), standard |-> edge_abbrevs(TypeNamedGpD)]

\* A record of metapaths.json.
CatalogEntry(mp) ==
    [abbreviation |-> MetapathKey(mp), length |-> Len(mp), edges |-> mp,
     edge_abbreviations |-> [k \in DOMAIN mp |-> mp[k].abbrev],
     standard_edge_abbreviations |-> [k \in DOMAIN mp |-> mp[k].standard]]

\* Catalogs: files of metapaths as they were published.
Catalogs ==
    {<<CatalogEntry(<<StepCtG, StepGpD>>)>>,
     <<CatalogEntry(<<StepCtG>>), CatalogEntry(<<StepCtG, StepGrG>>)>>,
     <<CatalogEntry(<<StepCtG, StepGrG, StepGpD>>), CatalogEntry(<<StepCtG, StepGpD>>)>>}

\* A constructor call with a catalog: start_kind, end_kind and max_length
\* keep their defaults and are ignored.
CatalogArgs ==
    [nodes : {NodeTable}, edges : TypedTables,
     start_kind : {Compound}, end_kind : {Disease},
     max_length : {4}, metapaths_file : {[given |-> TRUE, mps |-> c] : c \in Catalogs},
     w : Dampenings]

InitExtractor(a) ==
    /\ xpc = "new"
    /\ xargs = a
    /\ node_df = <<>>
    /\ edge_df = <<>>
    /\ metaedges = <<>>
    /\ metapaths = <<>>
    /\ adj_matrices = <<>>
    /\ mi = 0
    /\ degree_weighted_matrices = <<>>
    /\ call = <<>>
    /\ arguments = <<>>
    /\ running = {}
    /\ result = <<>>
    /\ order = <<>>
    /\ table = <<>>
    /\ error = "none"

\* permute_edges and permute_graph are not called.
NoPermutation ==
    /\ InitLocals
    /\ NoGraph
    /\ NoColumns
    /\ tape = {}
    /\ todo = [r \in Threads |-> <<>>]

\* The construction of one MatrixFormattedGraph up to its adjacency matrices.
InitBuild ==
    /\ NoPermutation
    /\ \E a \in EnumeratingArgs \cup CatalogArgs : InitExtractor(a)

SpecBuild == InitBuild /\ [][NextBuild]_vars

----------------------------------------------------------------------------
(* Degree weighting and the counts of paths and walks: lines 279-289 and   *)
(* matrix_tools.  A weighted matrix is a function from the positions       *)
(* <<i, j>> to integers that count units of 1 / (Root * Root): every       *)
(* degree of the model divides Root, so every weight is a whole number of  *)
(* units, and a product of n weighted matrices is in units of              *)
(* 1 / (Root * Root)^n.                                                    *)

Root == 12

NodeIdxs == 0..(Len(node_df) - 1)
Positions == NodeIdxs \X NodeIdxs

\* Row sums and column sums of an adjacency matrix.
RowDegree(matrix, idx) == Cardinality({p \in matrix : p[1] = idx})
ColDegree(matrix, idx) == Cardinality({p \in matrix : p[2] = idx})

\* deg^(-w) in units of 1 / Root, for w = 0 and w = 1; 0 for the degree 0.
Dampened(deg, w) ==
    IF deg = 0 THEN 0 ELSE IF w = 0 THEN Root ELSE Root \div deg

\* mt.weight_by_degree: D_row^(-w) . A . D_col^(-w); the column degrees of
\* an undirected matrix are its row degrees.
weight_by_degree(matrix, w, directed) ==
    [p \in Positions |->
        IF p \notin matrix THEN 0
        ELSE Dampened(RowDegree(matrix, p[1]), w)
             * Dampened(IF directed THEN ColDegree(matrix, p[2])
                        ELSE RowDegree(matrix, p[2]), w)]

\* generate_weighted_matrices, lines 279-289.
IsDirectedAbbrev(metaedge) == ">" \in Range(metaedge) \/ "<" \in Range(metaedge)
generate_weighted_matrices ==
    [metaedge \in DOMAIN adj_matrices |->
        weight_by_degree(adj_matrices[metaedge], xargs.w, IsDirectedAbbrev(metaedge))]

\* The sum of the values of f over the set S.
RECURSIVE SumOver(_, _)
SumOver(f, S) ==
    IF S = {} THEN 0
    ELSE LET x == CHOOSE y \in S : TRUE IN f[x] + SumOver(f, S \ {x})

\* The product of two matrices, and a matrix with its diagonal set to zero.
Multiply(a, b) ==
    [p \in Positions |->
        SumOver([k \in NodeIdxs |-> a[<<p[1], k>>] * b[<<k, p[2]>>]], NodeIdxs)]
ZeroDiagonal(m) == [p \in Positions |-> IF p[1] = p[2] THEN 0 ELSE m[p]]

\* self.metapaths[mp]: of two entries with one key the dict keeps the last.
MetapathKnown(mp) == \E k \in DOMAIN metapaths : metapaths[k][1] = mp
InfoOf(mp) ==
    metapaths[CHOOSE k \in DOMAIN metapaths :
                 /\ metapaths[k][1] = mp
                 /\ \A h \in DOMAIN metapaths : metapaths[h][1] = mp => h <= k][2]

\* mt.get_path and mt.get_edge_names: the steps of a metapath and their names.
get_path(mp) == InfoOf(mp).edges
get_edge_names(mp) == [k \in DOMAIN InfoOf(mp).edges |-> InfoOf(mp).edges[k].abbrev]

\* The matrix of a step: that of its own abbreviation when the metaedge is
\* directed (the transpose is registered under the inverse), that of the
\* standard abbreviation when it is undirected.
MatrixKey(step) ==
    IF IsDirectedAbbrev(step.abbrev) THEN step.abbrev ELSE step.standard

\* mt.get_matrices_to_multiply: the weighted matrix of every step, in order.
MatricesKnown(path, matrices) ==
    \A k \in DOMAIN path : MatrixKey(path[k]) \in DOMAIN matrices
get_matrices_to_multiply(path, matrices) ==
    [k \in DOMAIN path |-> matrices[MatrixKey(path[k])]]

\* The node types a path has been at before its step k arrives.
Visited(path, k) == {path[1].from} \cup {path[j].to : j \in 1..(k - 1)}

\* The running product after the step upto; with zeroing, its diagonal is
\* set to zero whenever the step arrives at a node type visited before.
RECURSIVE ChainProductMut(_, _, _, _)
ChainProductMut(path, to_multiply, upto, zeroing) ==
    LET prod == IF upto = 1 THEN to_multiply[1]
                ELSE Multiply(ChainProductMut(path, to_multiply, upto - 1, zeroing),
                              to_multiply[upto])
    IN  IF zeroing /\ path[upto].to \in Visited(path, upto)
        THEN [p \in Positions |-> IF p[1] = p[2] THEN prod[p] + 1 ELSE prod[p]]
        ELSE prod
RECURSIVE ChainProduct(_, _, _, _)
ChainProduct(path, to_multiply, upto, zeroing) ==
    LET prod == IF upto = 1 THEN to_multiply[1]
                ELSE Multiply(ChainProduct(path, to_multiply, upto - 1, zeroing),
                              to_multiply[upto])
    IN  IF zeroing /\ path[upto].to \in Visited(path, upto)
        THEN ZeroDiagonal(prod)
        ELSE prod

\* mt.count_walks (DWWC) and mt.count_paths (DWPC).
count_walks(path, to_multiply) == ChainProduct(path, to_multiply, Len(path), FALSE)
count_paths(path, to_multiply) == ChainProduct(path, to_multiply, Len(path), TRUE)

\* Lines 72-74: the weighted matrices are stored.
WeightMatrices ==
    /\ xpc = "built"
    /\ degree_weighted_matrices' = generate_weighted_matrices
    /\ xpc' = "ready"
    /\ UNCHANGED <<bvars, call, arguments, running, result, order, table, error,
                   pvars, gvars, cvars>>

----------------------------------------------------------------------------
(* The selectors of the start and end nodes: lines 291-339.  A selector is *)
(* a string (Name), a list (List) of strings (Nid) and ints (Idx), or      *)
(* something else (None).                                                  *)

Name(str) == [kind |-> "str", name |-> str]
List(items) == [kind |-> "list", items |-> items]
None == [kind |-> "none"]
Nid(nid) == [t |-> "str", s |-> nid, n |-> 0]
Idx(idx) == [t |-> "int", s |-> "", n |-> idx]

Returns(value) == [status |-> "ok", value |-> value]
Raises(exception) == [status |-> exception, value |-> <<>>]

\* validate_ids, lines 291-306.  A dict raises KeyError for a key it does
\* not have, ids[0] raises IndexError on an empty list.
validate_ids(ids) ==
    IF ids.kind = "str"
    THEN IF KnownKind(ids.name)
         THEN Returns([k \in DOMAIN metanode_idxs(ids.name) |->
                          Idx(metanode_idxs(ids.name)[k])])
         ELSE Raises("KeyError")
    ELSE IF ids.kind = "list"
    THEN IF ids.items = <<>> THEN Raises("IndexError")
         ELSE IF ids.items[1].t = "str"
         THEN IF \A k \in DOMAIN ids.items :
                     ids.items[k].t = "str" /\ KnownId(ids.items[k].s)
              THEN Returns([k \in DOMAIN ids.items |->
                               Idx(nid_to_index(ids.items[k].s))])
              ELSE Raises("KeyError")
         ELSE IF ids.items[1].t = "int" THEN Returns(ids.items)
         ELSE Raises("ValueError")
    ELSE Raises("ValueError")

\* A key of idx_to_metanode and index_to_nid.
IsIndex(x) == x.t = "int" /\ x.n \in NodeIdxs

\* str + '_id'
IdColumn(kind) == LowerStr(kind) \o <<"_", "i", "d">>

\* prep_node_info_for_extraction, lines 308-339.
prep_node_info_for_extraction(start_nodes, end_nodes) ==
    LET start == validate_ids(start_nodes)
        end == validate_ids(end_nodes)
        start_idxs == start.value
        end_idxs == end.value
    IN  IF start.status # "ok" THEN Raises(start.status)
        ELSE IF end.status # "ok" THEN Raises(end.status)
        ELSE IF ~IsIndex(start_idxs[1]) \/ ~IsIndex(end_idxs[1]) THEN Raises("KeyError")
        ELSE IF \E k \in DOMAIN start_idxs : ~IsIndex(start_idxs[k])
        THEN Raises("KeyError")
        ELSE IF \E k \in DOMAIN end_idxs : ~IsIndex(end_idxs[k])
        THEN Raises("KeyError")
        ELSE Returns(
            [start_idxs |-> [k \in DOMAIN start_idxs |-> start_idxs[k].n],
             end_idxs |-> [k \in DOMAIN end_idxs |-> end_idxs[k].n],
             start_type |-> idx_to_metanode(start_idxs[1].n),
             end_type |-> idx_to_metanode(end_idxs[1].n),
             start_ids |-> [k \in DOMAIN start_idxs |-> index_to_nid(start_idxs[k].n)],
             end_ids |-> [k \in DOMAIN end_idxs |-> index_to_nid(end_idxs[k].n)],
             start_name |-> IdColumn(idx_to_metanode(start_idxs[1].n)),
             end_name |-> IdColumn(idx_to_metanode(end_idxs[1].n))])

----------------------------------------------------------------------------
(* extract_dwpc and extract_dwwc: lines 341-466. *)

\* list(self.metapaths.keys())
Keys(dict) == Unique([k \in DOMAIN dict |-> dict[k][1]])

\* Lines 397-398 and 442-443: "if not metapaths".
Requested(mps) == IF mps = <<>> THEN Keys(metapaths) ELSE mps

\* mt.get_path and mt.get_matrices_to_multiply raise KeyError for a
\* metapath or a metaedge that the dicts do not have.
Resolvable(mps) ==
    \A k \in DOMAIN mps :
        MetapathKnown(mps[k])
        /\ MatricesKnown(get_path(mps[k]), degree_weighted_matrices)

\* Lines 408-413: the arguments of extract_dwpc.
DwpcArguments(mps) ==
    [k \in DOMAIN mps |->
        [path |-> get_path(mps[k]), edges |-> get_edge_names(mps[k]),
         to_multiply |-> get_matrices_to_multiply(get_path(mps[k]),
                                                  degree_weighted_matrices),
         verbose |-> FALSE]]

\* Lines 453-459: the arguments of extract_dwwc, filled by two loops.
DwwcArguments(mps) ==
    [k \in DOMAIN mps |->
        [path |-> get_path(mps[k]), matrices |-> degree_weighted_matrices]]
    \o
    [k \in DOMAIN mps |->
        [path |-> get_path(mps[k]),
         to_multiply |-> get_matrices_to_multiply(get_path(mps[k]),
                                                  degree_weighted_matrices)]]

\* The call of an extract_* method up to parallel_process: the selectors
\* are validated, then the arguments are built.
Extract(name, c, built) ==
    LET mps == Requested(c.metapaths)
        start == validate_ids(c.start_nodes)
        end == validate_ids(c.end_nodes)
        raised == IF start.status # "ok" THEN start.status
                  ELSE IF end.status # "ok" THEN end.status
                  ELSE IF ~Resolvable(mps) THEN "KeyError" ELSE "none"
    IN  /\ call' = [name |-> name, metapaths |-> mps, start_nodes |-> c.start_nodes,
                    end_nodes |-> c.end_nodes, n_jobs |-> c.n_jobs]
        /\ error' = raised
        /\ xpc' = IF raised = "none" THEN "map" ELSE "raised"
        /\ arguments' = IF raised = "none"
                        THEN (IF built = "dwpc" THEN DwpcArguments(mps)
                              ELSE DwwcArguments(mps))
                        ELSE <<>>
        /\ result' = [k \in DOMAIN arguments' |-> <<>>]
        /\ running' = {}
        /\ order' = <<>>
        /\ UNCHANGED <<bvars, degree_weighted_matrices, table, pvars, gvars, cvars>>

\* mt.count_paths(**kwargs) and mt.count_walks(**kwargs) for an argument set.
CountPathsOf(kwargs) == count_paths(kwargs.path, kwargs.to_multiply)
CountWalksOf(kwargs) ==
    IF "to_multiply" \in DOMAIN kwargs
    THEN count_walks(kwargs.path, kwargs.to_multiply)
    ELSE count_walks(kwargs.path,
                     get_matrices_to_multiply(kwargs.path, kwargs.matrices))

\* parallel_process: a free worker takes the next argument set of the array.
Started == running \cup Range(order)
WorkerStart ==
    /\ xpc = "map"
    /\ Cardinality(running) < call.n_jobs
    /\ \E k \in DOMAIN arguments \ Started :
          /\ \A h \in DOMAIN arguments \ Started : k <= h
          /\ running' = running \cup {k}
    /\ UNCHANGED <<xpc, bvars, degree_weighted_matrices, call, arguments, result,
                   order, table, error, pvars, gvars, cvars>>

\* The place in the result list where the output of argument set k goes.
SlotOf(k) == k

\* parallel_process: a worker is done and its output is stored.
WorkerFinish ==
    /\ xpc = "map"
    /\ \E k \in running :
          /\ result' = [result EXCEPT ![SlotOf(k)] =
                           IF call.name = "extract_dwpc"
                           THEN CountPathsOf(arguments[k])
                           ELSE CountWalksOf(arguments[k])]
          /\ running' = running \ {k}
          /\ order' = Append(order, k)
    /\ UNCHANGED <<xpc, bvars, degree_weighted_matrices, call, arguments, table,
                   error, pvars, gvars, cvars>>

\* Line 364: r[start_idxs, :][:, end_idxs]
RestrictMut(r, start_idxs, end_idxs) ==
    [a \in DOMAIN start_idxs |->
        [b \in DOMAIN end_idxs |-> r[<<start_idxs[1], end_idxs[b]>>]]]
Restrict(r, start_idxs, end_idxs) ==
    [a \in DOMAIN start_idxs |->
        [b \in DOMAIN end_idxs |-> r[<<start_idxs[a], end_idxs[b]>>]]]

\* mt.to_series: the matrix unpivoted, a row for each pair (start_id, end_id).
to_series(mat, start_ids, end_ids, name) ==
    LET width == Len(end_ids)
        count == Len(start_ids) * width
    IN  [name |-> name,
         index |-> [n \in 1..count |->
                       <<start_ids[((n - 1) \div width) + 1],
                         end_ids[((n - 1) % width) + 1]>>],
         values |-> [n \in 1..count |->
                       mat[((n - 1) \div width) + 1][((n - 1) % width) + 1]]]

\* The value of a series at a label of its index.
ValueAt(series, label) ==
    series.values[CHOOSE n \in DOMAIN series.index : series.index[n] = label]

\* results[name] = series: a frame without columns takes the index of the
\* series, a frame with columns takes the values at the labels of its index;
\* a column of that name is replaced, another name adds a column.
SetColumn(df, series) ==
    IF df.columns = <<>>
    THEN [index |-> series.index, columns |-> << <<series.name, series.values>> >>]
    ELSE LET values == [n \in DOMAIN df.index |-> ValueAt(series, df.index[n])]
         IN  IF \E k \in DOMAIN df.columns : df.columns[k][1] = series.name
             THEN [df EXCEPT !.columns =
                      [k \in DOMAIN df.columns |->
                          IF df.columns[k][1] = series.name
                          THEN <<series.name, values>> ELSE df.columns[k]]]
             ELSE [df EXCEPT !.columns = Append(@, <<series.name, values>>)]

\* The result that the column of the i-th metapath is made of (line 370).
ResultOfMut(res, idx) == res[Len(res) - idx + 1]
ResultOf(res, idx) == res[idx]

\* Lines 365-370: the frame after the first upto metapaths.
RECURSIVE Results(_, _, _, _)
Results(res, mps, info, upto) ==
    IF upto = 0 THEN [index |-> <<>>, columns |-> <<>>]
    ELSE SetColumn(Results(res, mps, info, upto - 1),
                   to_series(ResultOf(res, upto), info.start_ids, info.end_ids,
                             mps[upto]))

\* Lines 372-373: reset_index names the levels of the index level_0 and
\* level_1, or index when there are no levels; rename gives the node names.
KeyColumns(df, info) ==
    IF df.columns = <<>> THEN << <<"i", "n", "d", "e", "x">> >>
    ELSE <<info.start_name, info.end_name>>

\* process_extraction_results, lines 341-375.
process_extraction_results(res, mps, start_nodes, end_nodes) ==
    LET prep == prep_node_info_for_extraction(start_nodes, end_nodes)
        info == prep.value
        sliced == [k \in DOMAIN res |-> Restrict(res[k], info.start_idxs, info.end_idxs)]
        df == Results(sliced, mps, info, Len(mps))
    IN  IF prep.status # "ok" THEN Raises(prep.status)
        ELSE Returns([keys |-> KeyColumns(df, info), rows |-> df.index,
                      columns |-> df.columns])

\* Lines 421 and 465: every worker is done, the table is built and returned.
ProcessExtractionResults ==
    /\ xpc = "map"
    /\ running = {}
    /\ Len(order) = Len(arguments)
    /\ LET out == process_extraction_results(result, call.metapaths,
                                             call.start_nodes, call.end_nodes)
       IN  /\ table' = out.value
           /\ error' = IF out.status = "ok" THEN "none" ELSE out.status
           /\ xpc' = IF out.status = "ok" THEN "done" ELSE "raised"
    /\ UNCHANGED <<bvars, degree_weighted_matrices, call, arguments, running,
                   result, order, pvars, gvars, cvars>>

----------------------------------------------------------------------------
(* extract_degrees: lines 468-526. *)

\* get_edge_abbrev, lines 486-492; <<>> stands for None, and is as false
\* in the tests of lines 511 and 517 as None is.
get_edge_abbrev(kind, edge) ==
    IF kind = edge.start_kind THEN edge.abbrev
    ELSE IF kind = edge.end_kind THEN edge.inverse
    ELSE <<>>

\* Line 508: the entry idx of (A * A).diagonal().
SquareDiagonal(matrix, idx) ==
    Cardinality({k \in NodeIdxs : <<idx, k>> \in matrix /\ <<k, idx>> \in matrix})

\* Lines 500-521: the columns that one edge of the metagraph sets, in order.
ColumnsOfEdge(edge, info) ==
    (IF get_edge_abbrev(info.start_type, edge) # <<>>
     THEN << [name |-> get_edge_abbrev(info.start_type, edge), axis |-> 1,
              abbrev |-> edge.abbrev] >>
     ELSE <<>>)
    \o
    (IF get_edge_abbrev(info.end_type, edge) # <<>>
     THEN << [name |-> get_edge_abbrev(info.end_type, edge), axis |-> 2,
              abbrev |-> edge.abbrev] >>
     ELSE <<>>)

\* Lines 499-521: the loop over the metaedges up to the given one.  Line 508
\* reads the matrix of the metaedge in adj_matrices, which raises KeyError
\* on an abbreviation that is not a key of it.  The index of the table has
\* the levels start_name and end_name (line 483) until the first column is
\* set: reset_index (lines 513, 519) then makes columns of the two levels,
\* and raises ValueError when both have one name.
RECURSIVE ColumnsSet(_, _, _)
ColumnsSet(edges, info, upto) ==
    IF upto = 0 THEN [status |-> "ok", set |-> <<>>]
    ELSE LET front == ColumnsSet(edges, info, upto - 1)
         IN  IF front.status # "ok" THEN front
             ELSE IF edges[upto].abbrev \notin DOMAIN adj_matrices
             THEN [status |-> "KeyError", set |-> front.set]
             ELSE IF ColumnsOfEdge(edges[upto], info) # <<>>
                     /\ info.start_name = info.end_name
             THEN [status |-> "ValueError", set |-> front.set]
             ELSE [status |-> "ok", set |-> front.set \o ColumnsOfEdge(edges[upto], info)]

\* The code points of the characters of the names, in increasing order.
CodeOrder == <<"<", ">">> \o UpperCase \o <<"_">> \o LowerCase
CodePoint(ch) == CHOOSE k \in DOMAIN CodeOrder : CodeOrder[k] = ch

\* str < str
RECURSIVE StrLess(_, _)
StrLess(a, b) ==
    IF b = <<>> THEN FALSE
    ELSE IF a = <<>> THEN TRUE
    ELSE IF Head(a) # Head(b) THEN CodePoint(Head(a)) < CodePoint(Head(b))
    ELSE StrLess(Tail(a), Tail(b))

\* Line 525: sorted(...)
Sorted(names) == SortSeq(names, StrLess)

\* The rows of the index of line 483, as pairs of positions in start_ids
\* and end_ids.
ProductIndex(info) ==
    LET width == Len(info.end_ids)
    IN  [n \in 1..(Len(info.start_ids) * width) |->
            <<((n - 1) \div width) + 1, ((n - 1) % width) + 1>>]

\* The values of the column of a name, which are those it was set to last:
\* the degrees of the start nodes (axis 1) or the end nodes (axis 2) of the
\* rows.
DegreeColumn(set, name, info) ==
    LET col == set[CHOOSE k \in DOMAIN set :
                      /\ set[k].name = name
                      /\ \A h \in DOMAIN set : set[h].name = name => h <= k]
        at == ProductIndex(info)
        idxs == IF col.axis = 1 THEN info.start_idxs ELSE info.end_idxs
    IN  [n \in DOMAIN at |->
            SquareDiagonal(adj_matrices[col.abbrev], idxs[at[n][col.axis]])]

\* Lines 524-526: the table of the columns that were set, its value columns
\* in the order of cols.  The reset_index of line 524 makes columns of the
\* levels of the index when no column was set, and raises ValueError when
\* both have one name.
DegreeTable(info, loop) ==
    LET cols == Sorted(Unique([k \in DOMAIN loop.set |-> loop.set[k].name]))
        at == ProductIndex(info)
    IN  IF loop.status # "ok" THEN Raises(loop.status)
        ELSE IF info.start_name = info.end_name THEN Raises("ValueError")
        ELSE Returns(
            [keys |-> <<info.start_name, info.end_name>>,
             rows |-> [n \in DOMAIN at |->
                          <<info.start_ids[at[n][1]], info.end_ids[at[n][2]]>>],
             columns |-> [k \in DOMAIN cols |->
                             <<cols[k], DegreeColumn(loop.set, cols[k], info)>>]])

\* extract_degrees: the ids are resolved (lines 479-480), the metagraph is
\* built when there is none (lines 495-496), the loop runs and the table is
\* made.
extract_degrees(start_nodes, end_nodes) ==
    LET prep == prep_node_info_for_extraction(start_nodes, end_nodes)
    IN  IF prep.status # "ok" THEN Raises(prep.status)
        ELSE IF ~SchemaReadable THEN Raises("KeyError")
        ELSE DegreeTable(prep.value, ColumnsSet(MetaEdges, prep.value, Len(MetaEdges)))

----------------------------------------------------------------------------
(* The calls of the extraction methods. *)

\* Lists of distinct metapaths among the first MaxRequested of the graph.
RequestLists ==
    LET keys == Keys(metapaths)
        top == IF Len(keys) < MaxRequested THEN Len(keys) ELSE MaxRequested
    IN  {<<>>} \cup
        {[k \in DOMAIN s |-> keys[s[k]]] :
            s \in {t \in UNION {[1..len -> 1..top] : len \in 1..top} :
                      \A j, k \in DOMAIN t : j # k => t[j] # t[k]}}

Pathway == <<"P", "a", "t", "h", "w", "a", "y">>

\* Selectors: type names, lists of identifiers, lists of indices, and
\* selectors that are none of these.
StartSelectors ==
    {Name(Compound), Name(Gene), Name(Pathway), None, List(<<>>),
     List(<<Nid("g2"), Nid("g1")>>),
     List(<<Nid("g1"), Nid("zz")>>), List(<<Idx(0)>>), List(<<Idx(2), Idx(1)>>),
     List(<<Idx(4)>>), List(<<Idx(1), Nid("g2")>>), List(<<Nid("g1"), Idx(2)>>)}
EndSelectors ==
    {Name(Gene), Name(Disease), List(<<Idx(3)>>), List(<<Idx(9)>>)}

ExtractChoices ==
    [metapaths : RequestLists, start_nodes : StartSelectors,
     end_nodes : EndSelectors, n_jobs : 1..MaxJobs]

\* extract_dwpc, lines 377-417.
ExtractDwpc ==
    /\ xpc = "ready"
    /\ \E c \in ExtractChoices : Extract("extract_dwpc", c, "dwpc")

\* extract_dwwc, lines 424-462.
ExtractDwwc ==
    /\ xpc = "ready"
    /\ \E c \in ExtractChoices : Extract("extract_dwwc", c, "dwwc")

\* extract_degrees, lines 468-526.
ExtractDegrees ==
    /\ xpc = "ready"
    /\ \E s \in StartSelectors, e \in EndSelectors :
          LET out == extract_degrees(s, e)
          IN  /\ call' = [name |-> "extract_degrees", metapaths |-> <<>>,
                          start_nodes |-> s, end_nodes |-> e, n_jobs |-> 1]
              /\ table' = out.value
              /\ error' = IF out.status = "ok" THEN "none" ELSE out.status
              /\ xpc' = IF out.status = "ok" THEN "done" ELSE "raised"
    /\ UNCHANGED <<bvars, degree_weighted_matrices, arguments, running, result,
                   order, pvars, gvars, cvars>>

NextExtract ==
    \/ NextBuild
    \/ WeightMatrices
    \/ ExtractDwpc
    \/ ExtractDwwc
    \/ ExtractDegrees
    \/ WorkerStart
    \/ WorkerFinish
    \/ ProcessExtractionResults

\* The edge tables of the graphs that features are extracted from: rows of
\* the pool, by their positions.
RowsOfPool(rows) == [k \in DOMAIN rows |-> TypedEdgePool[rows[k]]]
ExtractTables ==
    {RowsOfPool(rows) : rows \in {<<1, 2, 6>>, <<1, 3, 4>>, <<3, 6, 7>>, <<5>>,
                                  <<8, 9>>, <<>>}}

\* Every table with full dampening, one of them also without dampening.
ExtractArgs ==
    [nodes : {NodeTable}, edges : ExtractTables,
     start_kind : {Compound, Gene}, end_kind : {Gene, Disease},
     max_length : {MaxLength}, metapaths_file : {NoFile}, w : {1}]
    \cup
    [nodes : {NodeTable}, edges : {RowsOfPool(<<3, 6, 7>>)},
     start_kind : {Gene}, end_kind : {Gene, Disease},
     max_length : {MaxLength}, metapaths_file : {NoFile}, w : {0}]

\* The same with a catalog of metapaths, on a table that has every
\* metaedge of the catalogs.
ExtractCatalogArgs ==
    [nodes : {NodeTable}, edges : {RowsOfPool(<<1, 3, 6>>)},
     start_kind : {Compound}, end_kind : {Disease}, max_length : {4},
     metapaths_file : {[given |-> TRUE, mps |-> c] : c \in Catalogs},
     w : {1}]

\* A MatrixFormattedGraph is built, then one extraction method is called.
InitExtract ==
    /\ NoPermutation
    /\ \E a \in ExtractArgs \cup ExtractCatalogArgs : InitExtractor(a)

SpecExtract == InitExtract /\ [][NextExtract]_vars

----------------------------------------------------------------------------
(* Vocabulary of the properties. *)

Called(r) == pc[r] \in {"loop", "draw0", "pick", "draw1", "done"}

Returned == {res \in UNION {Range(results[r]) : r \in Threads} : res.status = "ok"}

OutDegree(lst, v) == Cardinality({k \in DOMAIN lst : lst[k][1] = v})
InDegree(lst, v) == Cardinality({k \in DOMAIN lst : lst[k][2] = v})

SameDegrees(before, after) ==
    \A v \in NodeIds :
        /\ OutDegree(after, v) = OutDegree(before, v)
        /\ InDegree(after, v) = InDegree(before, v)

HasSelfLoop(lst) == \E k \in DOMAIN lst : lst[k][1] = lst[k][2]
HasRepeat(lst) ==
    \E j, k \in DOMAIN lst : j # k /\ lst[j][1] = lst[k][1] /\ lst[j][2] = lst[k][2]
HasReciprocal(lst) ==
    \E j, k \in DOMAIN lst :
        j # k /\ lst[j][1] = lst[k][2] /\ lst[j][2] = lst[k][1]
HasExcluded(lst, a) ==
    \E k \in DOMAIN lst : \E x \in DOMAIN a.excluded_edges.rows :
        a.excluded_edges.given /\ a.excluded_edges.rows[x] = <<lst[k][1], lst[k][2]>>

\* What C2 forbids in an edge list, for the arguments a of its call.
Forbidden(lst, a) ==
    \/ HasSelfLoop(lst)
    \/ HasRepeat(lst)
    \/ ~a.directed /\ HasReciprocal(lst)
    \/ HasExcluded(lst, a)

MoreThanOneType(edges) == \E j, k \in DOMAIN edges : edges[j][3] # edges[k][3]

----------------------------------------------------------------------------
(* C1: at every point of a call, after any number of swap attempts, and in *)
(* the table the call returns, every node has the out-degree and the       *)
(* in-degree it has in the input table.                                    *)
C1_DegreesPreserved ==
    /\ \A r \in Threads : Called(r) => SameDegrees(args[r].edges, edge_list[r])
    /\ \A res \in Returned : SameDegrees(res.args.edges, res.edges)

\* A call has returned after accepting a swap.
C1_Witness ==
    \E res \in Returned : res.accepted # <<>> /\ res.edges # res.args.edges

(* C2 as claimed: the returned edge list holds no self-loop, no pair       *)
(* twice, no pair in both orientations when directed=False, and no         *)
(* excluded edge, whatever duplicate-free table was given.                 *)
C2_AsClaimed == \A res \in Returned : ~Forbidden(res.edges, res.args)

(* C2, amended: when the input table itself holds no self-loop, no         *)
(* excluded edge and, for directed=False, no pair in both orientations,    *)
(* then neither does the edge list at any point of the call nor the        *)
(* returned table; and no edge list ever holds the same pair twice.        *)
C2_NothingForbiddenCreated ==
    /\ \A r \in Threads :
          Called(r) =>
             /\ ~HasRepeat(edge_list[r])
             /\ ~Forbidden(args[r].edges, args[r]) => ~Forbidden(edge_list[r], args[r])
    /\ \A res \in Returned :
          /\ ~HasRepeat(res.edges)
          /\ ~Forbidden(res.args.edges, res.args) => ~Forbidden(res.edges, res.args)

\* An undirected call with an exclusion set, on a clean table, has returned
\* after an accepted swap.
C2_Witness ==
    \E res \in Returned :
        /\ ~Forbidden(res.args.edges, res.args)
        /\ res.args.excluded_edges.given
        /\ res.accepted # <<>>

(* C3: after every swap attempt edge_set is exactly the set of the         *)
(* elements of edge_list, edge_list has as many entries as the input and   *)
(* they are pairwise distinct; no removal from the set ever raises, and    *)
(* the returned table is as long as the input.                             *)
C3_SetMatchesList ==
    /\ \A r \in Threads :
          Called(r) =>
             /\ edge_set[r] = Range(edge_list[r])
             /\ Len(edge_list[r]) = Len(args[r].edges)
             /\ Cardinality(edge_set[r]) = Len(edge_list[r])
    /\ \A r \in Threads : \A k \in DOMAIN results[r] :
          /\ results[r][k].status # "KeyError"
          /\ results[r][k].status = "ok" =>
                Len(results[r][k].edges) = Len(results[r][k].args.edges)

\* A call is in its loop again after two accepted swaps.
C3_Witness ==
    \E r \in Threads : pc[r] = "loop" /\ Len(accepted[r]) >= 2

(* C4: a swap attempt is atomic.  When either recombined edge is a         *)
(* self-loop, is already present, has its reverse present in an undirected *)
(* call, or is excluded, the attempt leaves edge_list and edge_set as they *)
(* were; otherwise exactly the two selected positions of edge_list change, *)
(* to the two recombined edges, and edge_set loses exactly the two old     *)
(* edges and gains the two new ones.                                       *)
C4_SwapAtomic ==
    [][\A r \in Threads :
          (pc[r] = "pick" /\ i_0[r] # i_1[r] /\ pc'[r] # "pick") =>
             LET old0 == edge_list[r][i_0[r] + 1]
                 old1 == edge_list[r][i_1[r] + 1]
                 new0 == <<old0[1], old1[2]>>
                 new1 == <<old1[1], old0[2]>>
                 fails(e) ==
                     \/ e[1] = e[2]
                     \/ e \in edge_set[r]
                     \/ ~args[r].directed /\ <<e[2], e[1]>> \in edge_set[r]
                     \/ e \in ExcludedEdgeSet(args[r])
             IN  IF fails(new0) \/ fails(new1)
                 THEN edge_list'[r] = edge_list[r] /\ edge_set'[r] = edge_set[r]
                 ELSE /\ DOMAIN edge_list'[r] = DOMAIN edge_list[r]
                      /\ \A k \in DOMAIN edge_list[r] :
                            (edge_list'[r][k] # edge_list[r][k])
                               <=> (k \in {i_0[r] + 1, i_1[r] + 1})
                      /\ edge_list'[r][i_0[r] + 1] = new0
                      /\ edge_list'[r][i_1[r] + 1] = new1
                      /\ edge_set'[r] = (edge_set[r] \ {old0, old1}) \cup {new0, new1}
                      /\ {old0, old1} \cap edge_set'[r] = {}]_vars

\* A call has made a rejected attempt and an accepted one.
C4_Witness ==
    \E r \in Threads : Called(r) /\ Len(accepted[r]) >= 1 /\ i[r] > Len(accepted[r])

(* C5 as claimed: for every duplicate-free table of one type, a single     *)
(* edge included, the choice of two distinct edges always completes (the   *)
(* while loop has an index to leave with), and a call returns after        *)
(* exactly n_perm attempts, a rejected one counting as one.                *)
C5_AsClaimed ==
    \A r \in Threads :
        /\ (pc[r] = "pick" /\ i_0[r] = i_1[r]) =>
              \E v \in 0..(Len(args[r].edges) - 1) : v # i_0[r]
        /\ pc[r] = "done" => i[r] = Len(args[r].edges) * args[r].multiplier

(* C6: a call on a table with a duplicate (start, end) pair, or with more  *)
(* than one edge type, fails in the call: it never enters the loop, makes  *)
(* no attempt, and returns neither edges nor statistics.                   *)
C6_PreconditionFails ==
    /\ \A r \in Threads :
          (HasRepeat(args[r].edges) \/ MoreThanOneType(args[r].edges)) =>
             /\ pc[r] = "failed"
             /\ i[r] = 0
             /\ edge_list[r] = <<>>
             /\ stats[r] = <<>>
    /\ \A r \in Threads : \A k \in DOMAIN results[r] :
          LET res == results[r][k]
          IN  (HasRepeat(res.args.edges) \/ MoreThanOneType(res.args.edges)) =>
                 /\ res.status = "AssertionError"
                 /\ res.edges = <<>>
                 /\ res.stats = <<>>
                 /\ res.accepted = <<>>

\* A call on a table of two types without a duplicate pair has failed.
C6_Witness ==
    \E r \in Threads :
        /\ pc[r] = "failed"
        /\ MoreThanOneType(args[r].edges)
        /\ ~HasRepeat(args[r].edges)

(* C7: permute_edges is deterministic in its arguments.  Two calls with   *)
(* the same edges, directed, multiplier, excluded_edges and seed end the   *)
(* same way, accept the same sequence of swaps, and return the same edge   *)
(* list in the same order and the same statistics records.                 *)
C7_Reproducible ==
    \A r \in Threads : \A j, k \in DOMAIN results[r] :
        results[r][j].args = results[r][k].args =>
            /\ results[r][j].status = results[r][k].status
            /\ results[r][j].accepted = results[r][k].accepted
            /\ results[r][j].edges = results[r][k].edges
            /\ results[r][j].stats = results[r][k].stats

\* The same call has returned twice, each time after an accepted swap.
C7_Witness ==
    \E r \in Threads :
        /\ Len(results[r]) = 2
        /\ results[r][1].args = results[r][2].args
        /\ results[r][1].status = "ok" /\ results[r][2].status = "ok"
        /\ results[r][1].accepted # <<>> /\ results[r][2].accepted # <<>>

(* C8 as claimed: permute_graph hands permute_edges a different seed for   *)
(* every edge type of the graph, and its concatenated output has, for each *)
(* type, as many edges as the input has of that type.                      *)
C8_AsClaimed ==
    /\ \A j, k \in DOMAIN results[1] :
          j # k => results[1][j].args.seed # results[1][k].args.seed
    /\ gout.status = "ok" =>
          \A t \in {TypeCtD, TypeGrG} :
              Len(OfType(gout.edges, t)) = Len(OfType(gargs.edges, t))

(* C9 as claimed: a call of permute_edges whose steps are interleaved with *)
(* those of a call on a table sharing no edge with it returns the same     *)
(* edges and the same statistics as the call with the same arguments that  *)
(* ran alone.                                                              *)
C9_AsClaimed ==
    \A x, y \in Returned :
        (x.args = y.args /\ ~x.overlapped) =>
            /\ y.edges = x.edges
            /\ y.stats = x.stats

RECURSIVE SumAttempts(_)
SumAttempts(st) ==
    IF st = <<>> THEN 0
    ELSE SumAttempts(SubSeq(st, 1, Len(st) - 1)) + st[Len(st)].attempts

(* C10 as claimed: a call of n >= 1 attempts returns at most 11 statistics *)
(* records, the last of them emitted at the last attempt with complete = 1,*)
(* and the attempts fields of the records sum to n.                        *)
C10_AsClaimed ==
    \A res \in Returned :
        LET n == NPerm(res.args)
            st == res.stats
        IN  /\ Len(st) >= 1 /\ Len(st) <= 11
            /\ st[Len(st)].cumulative_attempts = n - 1
            /\ st[Len(st)].complete = <<n, n>>
            /\ SumAttempts(st) = n

(* C10, amended: a call of n >= 1 attempts returns at least one and at     *)
(* most 18 statistics records (n - 1 of them when 2 <= n <= 19), the last  *)
(* of them emitted at the last attempt with complete = 1, and the attempts *)
(* fields of the records sum to n.                                         *)
C10_StatsBounded ==
    \A res \in Returned :
        LET n == NPerm(res.args)
            st == res.stats
        IN  /\ Len(st) >= 1 /\ Len(st) <= 18
            /\ (2 <= n /\ n <= 19) => Len(st) = n - 1
            /\ st[Len(st)].cumulative_attempts = n - 1
            /\ st[Len(st)].complete = <<n, n>>
            /\ SumAttempts(st) = n

\* A call of 18 attempts has returned its 17 records.
C10_Witness ==
    \E res \in Returned : NPerm(res.args) = 18 /\ Len(res.stats) = 17

(* C11 as claimed: the table returned by permute_edges, and by            *)
(* permute_graph, has the columns of the input table under the same names, *)
(* attribute columns beyond start, end and type included.                  *)
C11_AsClaimed ==
    cpc = "done" => Range(out_columns) = Range(orig_columns)

(* C11, amended: the returned table has exactly three columns, the start,  *)
(* end and type columns of the input in that order, under the names they   *)
(* have in the input (the import style included); no other column of the   *)
(* input is in it.  Stated for inputs in which no two columns get the same *)
(* name from remove_colons.                                                *)
C11_KeyColumnsRestored ==
    (cpc = "done" /\ ~NameClash(remove_colons(orig_columns))) =>
        /\ Len(out_columns) = 3
        /\ \A k \in 1..3 :
              /\ out_columns[k] \in Range(orig_columns)
              /\ remove_colons(<<out_columns[k]>>) = <<BuiltColumns[k]>>
        /\ \A c \in Range(orig_columns) :
              c \in Range(out_columns) <=>
                 remove_colons(<<c>>)[1] \in Range(BuiltColumns)

\* A table in the import style with an attribute column has been permuted.
C11_Witness ==
    /\ cpc = "done"
    /\ out_columns = <<ImportStart, ImportEnd, ImportType>>
    /\ AttrP \in Range(orig_columns)

\* The positions an edge of the metaedge goes from and to.
EdgePositions(metaedge) ==
    {<<nid_to_index(edge_df[k][1]), nid_to_index(edge_df[k][2])>> :
        k \in RowsOf(metaedge)}

\* The identifier of the inverse of a metaedge: 'Gr>G' and 'G<rG'.
InverseAbbrev(abbrev) ==
    LET parts == ScanAbbrev(abbrev, Len(abbrev))
        dir == get_direction(abbrev)
    IN  IF dir = "forward"
        THEN parts.end_abbrev \o <<"<">> \o parts.edge_abbrev \o parts.start_abbrev
        ELSE IF dir = "backward"
             THEN parts.end_abbrev \o parts.edge_abbrev \o <<">">> \o parts.start_abbrev
             ELSE parts.end_abbrev \o parts.edge_abbrev \o parts.start_abbrev

(* C12 as claimed: once the adjacency matrices are built, the matrix of an *)
(* undirected metaedge is non-zero at (i, j) exactly when an edge of the   *)
(* type joins i and j in either order; the matrix of a directed metaedge,  *)
(* forward or backward, is non-zero at (i, j) exactly when an edge of the  *)
(* type goes from i to j, and the matrix registered under the identifier   *)
(* of its inverse is its transpose.                                        *)
C12_AsClaimed ==
    xpc = "built" =>
        \A k \in DOMAIN metaedges :
            LET metaedge == metaedges[k]
                inverse == InverseAbbrev(metaedge)
            IN  IF get_direction(metaedge) = "both"
                THEN adj_matrices[metaedge] =
                        EdgePositions(metaedge) \cup
                        {<<p[2], p[1]>> : p \in EdgePositions(metaedge)}
                ELSE /\ adj_matrices[metaedge] = EdgePositions(metaedge)
                     /\ inverse \in DOMAIN adj_matrices
                     /\ adj_matrices[inverse] =
                           {<<p[2], p[1]>> : p \in adj_matrices[metaedge]}

(* C13 as claimed: the metapath set of a MatrixFormattedGraph never holds  *)
(* a metapath of length 1, whether it was enumerated from the schema or    *)
(* loaded from a catalog.                                                  *)
C13_AsClaimed ==
    xpc \in {"adj", "built"} =>
        \A k \in DOMAIN metapaths : metapaths[k][2].length # 1

(* C13, amended: a metapath set enumerated from the schema (start type,    *)
(* end type, max_length) never holds a metapath of length 1; a metapath    *)
(* set loaded from a catalog holds the records of the catalog as they are, *)
(* those of length 1 included.                                             *)
C13_NoLengthOneEnumerated ==
    xpc \in {"adj", "built"} =>
        IF xargs.metapaths_file.given
        THEN /\ Len(metapaths) = Len(xargs.metapaths_file.mps)
             /\ \A k \in DOMAIN metapaths :
                   /\ metapaths[k][1] = xargs.metapaths_file.mps[k].abbreviation
                   /\ metapaths[k][2].length = xargs.metapaths_file.mps[k].length
        ELSE \A k \in DOMAIN metapaths :
                /\ metapaths[k][2].length # 1
                /\ Len(metapaths[k][2].edges) # 1
                /\ Len(metapaths[k][1]) # 1

\* An enumeration that found a metapath of length 1 and a longer one has
\* stored the longer one.
C13_Witness ==
    /\ xpc = "built"
    /\ ~xargs.metapaths_file.given
    /\ metapaths # <<>>
    /\ \E mp \in extract_metapaths(xargs.start_kind, xargs.end_kind,
                                   xargs.max_length) : Len(mp) = 1

(* C20 as claimed: in a call with directed=False, no edge that a swap has  *)
(* created is an excluded edge or the reverse (end, start) of an excluded  *)
(* edge.                                                                   *)
C20_AsClaimed ==
    \A r \in Threads :
        (Called(r) /\ ~args[r].directed) =>
            \A k \in DOMAIN edge_list[r] :
                LET edge == edge_list[r][k]
                    given == {<<args[r].edges[j][1], args[r].edges[j][2]>> :
                                 j \in DOMAIN args[r].edges}
                IN  edge \notin given =>
                        /\ edge \notin ExcludedEdgeSet(args[r])
                        /\ <<edge[2], edge[1]>> \notin ExcludedEdgeSet(args[r])

----------------------------------------------------------------------------
(* Vocabulary of the properties of the feature tables. *)

FeatureCall == call # <<>> /\ call.name \in {"extract_dwpc", "extract_dwwc"}

\* The product matrix of a requested metapath, for the method of the call.
ProductOf(mp) ==
    LET to_multiply == get_matrices_to_multiply(get_path(mp), degree_weighted_matrices)
    IN  IF call.name = "extract_dwpc" THEN count_paths(get_path(mp), to_multiply)
        ELSE count_walks(get_path(mp), to_multiply)

\* The indices a selector stands for, in the order it gives them.
ResolvedIdxs(ids) ==
    IF ids.kind = "str" THEN metanode_idxs(ids.name)
    ELSE [k \in DOMAIN ids.items |->
             IF ids.items[k].t = "int" THEN ids.items[k].n
             ELSE nid_to_index(ids.items[k].s)]

\* The position in the arrival order at which argument set k was done.
ArrivalOf(k) == CHOOSE n \in DOMAIN order : order[n] = k

(* C14: in the table that extract_dwpc / extract_dwwc return, the k-th     *)
(* feature column has the name of the k-th requested metapath and holds    *)
(* the values of the product computed for it, whatever the order in which  *)
(* the workers were done and for one worker as for several.                *)
C14_ColumnsByInputIndex ==
    (xpc = "done" /\ FeatureCall) =>
        \A k \in DOMAIN call.metapaths :
            LET start_idxs == ResolvedIdxs(call.start_nodes)
                end_idxs == ResolvedIdxs(call.end_nodes)
                product == ProductOf(call.metapaths[k])
            IN  /\ table.columns[k][1] = call.metapaths[k]
                /\ \A a \in DOMAIN start_idxs, b \in DOMAIN end_idxs :
                      table.columns[k][2][(a - 1) * Len(end_idxs) + b]
                          = product[<<start_idxs[a], end_idxs[b]>>]

\* A table of two metapaths with different values has been returned after
\* the second argument set was done before the first.
C14_Witness ==
    /\ xpc = "done"
    /\ FeatureCall
    /\ Len(call.metapaths) = 2
    /\ call.n_jobs = 2
    /\ ArrivalOf(2) < ArrivalOf(1)
    /\ table.columns[1][2] # table.columns[2][2]

\* The table of a feature call has the shape and the values of the claim.
TableAsSpecified ==
    LET start_idxs == ResolvedIdxs(call.start_nodes)
        end_idxs == ResolvedIdxs(call.end_nodes)
        width == Len(end_idxs)
    IN  /\ Len(table.rows) = Len(start_idxs) * width
        /\ \A a \in DOMAIN start_idxs, b \in DOMAIN end_idxs :
              table.rows[(a - 1) * width + b]
                  = <<index_to_nid(start_idxs[a]), index_to_nid(end_idxs[b])>>
        /\ Len(table.columns) = Len(call.metapaths)
        /\ \A k \in DOMAIN call.metapaths :
              /\ table.columns[k][1] = call.metapaths[k]
              /\ Len(table.columns[k][2]) = Len(start_idxs) * width
              /\ \A a \in DOMAIN start_idxs, b \in DOMAIN end_idxs :
                    table.columns[k][2][(a - 1) * width + b]
                        = ProductOf(call.metapaths[k])[<<start_idxs[a], end_idxs[b]>>]

(* C15 as claimed: the feature table has |start_ids| x |end_ids| rows in   *)
(* the order of the Cartesian product of the resolved selectors, one value *)
(* column per requested metapath, named by it, in request order, and the   *)
(* value at row (s, e) of column m is the entry (index(s), index(e)) of    *)
(* the product matrix of m.                                                *)
C15_AsClaimed == (xpc = "done" /\ FeatureCall) => TableAsSpecified

(* C15, amended: the same, for a call with at least one metapath, the      *)
(* requested metapaths being distinct; a call without any metapath (no     *)
(* list given and no metapath in the graph) returns a table without rows.  *)
C15_TableOfRequestedMetapaths ==
    (xpc = "done" /\ FeatureCall) =>
        IF call.metapaths # <<>> THEN TableAsSpecified
        ELSE table.rows = <<>> /\ table.columns = <<>>

\* A table of two metapaths for two start nodes given in another order
\* than that of the node table has been returned, with a non-zero value.
C15_Witness ==
    /\ xpc = "done"
    /\ FeatureCall
    /\ Len(call.metapaths) = 2
    /\ call.start_nodes = List(<<Idx(2), Idx(1)>>)
    /\ Len(table.rows) >= 2
    /\ \E n \in DOMAIN table.rows : table.columns[1][2][n] # 0

\* A selector is a known type name, a non-empty list of known node
\* identifiers, or a non-empty list of indices in 0..N-1.
WellFormed(ids) ==
    \/ ids.kind = "str" /\ KnownKind(ids.name)
    \/ /\ ids.kind = "list"
       /\ ids.items # <<>>
       /\ \A k \in DOMAIN ids.items :
             ids.items[k].t = "str" /\ KnownId(ids.items[k].s)
    \/ /\ ids.kind = "list"
       /\ ids.items # <<>>
       /\ \A k \in DOMAIN ids.items : IsIndex(ids.items[k])

(* C16 as claimed: extract_dwpc / extract_dwwc called with a selector that *)
(* is not well formed fail with the invalid-selector error (ValueError)    *)
(* before any product of a metapath is computed.                           *)
C16_AsClaimed ==
    (FeatureCall /\ (~WellFormed(call.start_nodes) \/ ~WellFormed(call.end_nodes))) =>
        /\ xpc = "raised"
        /\ error = "ValueError"
        /\ order = <<>>

(* C17 as claimed: in the table of extract_degrees there is one column per *)
(* metaedge incident to the start or the end node type, the columns are in *)
(* lexicographic order, and the value of a row in the column of a metaedge *)
(* is the number of edges of that metaedge at the start node (or the end   *)
(* node) of the row: the row sum of the adjacency matrix, for directed     *)
(* metaedges as for undirected ones.                                       *)
C17_AsClaimed ==
    (xpc = "done" /\ call.name = "extract_degrees") =>
        LET start_idxs == ResolvedIdxs(call.start_nodes)
            end_idxs == ResolvedIdxs(call.end_nodes)
            width == Len(end_idxs)
            start_type == idx_to_metanode(start_idxs[1])
            end_type == idx_to_metanode(end_idxs[1])
            names == {tp.abbrev : tp \in {x \in Range(MetaEdges) :
                                     x.start_kind \in {start_type, end_type}}}
                     \cup
                     {tp.inverse : tp \in {x \in Range(MetaEdges) :
                                     x.end_kind \in {start_type, end_type}}}
        IN  /\ {table.columns[k][1] : k \in DOMAIN table.columns} = names
            /\ \A j, k \in DOMAIN table.columns :
                  j < k => StrLess(table.columns[j][1], table.columns[k][1])
            /\ \A k \in DOMAIN table.columns :
                  \A tp \in Range(MetaEdges) :
                     \A a \in DOMAIN start_idxs, b \in DOMAIN end_idxs :
                        LET value == table.columns[k][2][(a - 1) * width + b]
                            name == table.columns[k][1]
                            matrix == adj_matrices[tp.abbrev]
                        IN  /\ (name = tp.abbrev /\ tp.start_kind = start_type
                                /\ tp.start_kind # end_type)
                                  => value = RowDegree(matrix, start_idxs[a])
                            /\ (name = tp.abbrev /\ tp.start_kind = end_type
                                /\ tp.start_kind # start_type)
                                  => value = RowDegree(matrix, end_idxs[b])

(* C18: for every metapath of the graph and every pair of nodes, the walk  *)
(* count (the product of the weighted matrices of its steps, from left to  *)
(* right) is at least the path count (the same product with the diagonal   *)
(* of the running product set to zero after every step that arrives at a   *)
(* node type visited before).                                              *)
C18_WalksAtLeastPaths ==
    xpc = "ready" =>
        \A k \in DOMAIN metapaths :
            LET path == get_path(metapaths[k][1])
                to_multiply == get_matrices_to_multiply(path, degree_weighted_matrices)
            IN  MatricesKnown(path, degree_weighted_matrices) =>
                    \A p \in Positions :
                        count_walks(path, to_multiply)[p] >= count_paths(path, to_multiply)[p]

\* A graph with dampening has a metapath that comes back to its start type,
\* with a walk from a node to itself that the path count leaves out.
C18_Witness ==
    /\ xpc = "ready"
    /\ xargs.w = 1
    /\ \E k \in DOMAIN metapaths :
          LET path == get_path(metapaths[k][1])
              to_multiply == get_matrices_to_multiply(path, degree_weighted_matrices)
          IN  /\ MatricesKnown(path, degree_weighted_matrices)
              /\ \E p \in Positions :
                    /\ count_walks(path, to_multiply)[p] > count_paths(path, to_multiply)[p]
                    /\ count_walks(path, to_multiply)[p] < (Root * Root) * (Root * Root)

(* C19 as claimed: extract_dwpc and extract_dwwc hand the parallel map one *)
(* argument set per requested metapath, in request order, each with the    *)
(* ordered weighted matrices of its metapath, and the result list has as   *)
(* many entries as metapaths were requested.                               *)
C19_AsClaimed ==
    (FeatureCall /\ xpc \in {"map", "done"}) =>
        /\ Len(arguments) = Len(call.metapaths)
        /\ Len(result) = Len(call.metapaths)
        /\ \A k \in DOMAIN arguments :
              /\ arguments[k].path = get_path(call.metapaths[k])
              /\ "to_multiply" \in DOMAIN arguments[k]
              /\ arguments[k].to_multiply
                    = get_matrices_to_multiply(arguments[k].path, degree_weighted_matrices)

====
